---------------------------- MODULE Spec2Model ----------------------------
(***************************************************************************)
(* Retrieval-and-ranking path of the notes Q&A service: the /ask handler   *)
(* (search, threshold filter, MMR rerank, generation, answer-mode          *)
(* classification, citations) of api/routes.py with the helpers it calls.  *)
(*                                                                         *)
(* Numbers.  Distances and similarity thresholds are kept in hundredths    *)
(* (0.80 is 80).  Embedding vectors are pairs of integers of Euclidean     *)
(* norm 5 (or the zero vector), so a cosine is Dot(u, v) / 25.  MMR and    *)
(* combined scores are kept multiplied by 250, lambda is in tenths.        *)
(* Texts are strings drawn from a small catalogue; Chars gives the         *)
(* characters of each, and every text operation works on the characters.   *)
(***************************************************************************)
EXTENDS Integers, Sequences, FiniteSets, TLC

(* ------------------------------ bounds --------------------------------- *)

\* Largest k a request carries (the handler accepts 1..20).
MaxK == 2

\* Longest list of rows the search RPC returns in the small profiles.
MaxHits == 3

\* Longest list of rows the search RPC returns in the many-hits profile.
MaxBigHits == 22

\* Longest generated answer, in segments.
MaxAnswerLen == 3

(* ------------------------- program constants --------------------------- *)

\* float('inf'), the initial min_distance.
Infinity == 1000000

\* h.get("distance", 1.0): the distance of a hit that carries none.
DefaultDistance == 100

\* effective_min_distance when no hit was seen.
NoHitMinDistance == 100

\* len(candidate_snippets) > 20 triggers the secondary filter.
SecondaryTrigger == 20

\* distance_cutoff = min_distance + 0.25
SecondaryMargin == 25

\* mmr_input_limit = min(15, len(snippets))
MmrInputLimit == 15

\* has_relevant_docs = min_distance < 0.75
RelevanceCutoff == 75

\* answer_lower[:50]
GreetingWindow == 50

\* lambda_param: float = 0.7, in tenths
DefaultLambda == 7

\* best_score = -1e9
MinusInfinity == -1000000000

\* k < 1 or k > 20
MaxValidK == 20

\* len(q) < 3
MinQuestionLen == 3

(* ---------------------------- text helpers ----------------------------- *)

Chars(s) ==
    CASE s = "" -> <<>>
      [] s = "Paris is the capital of France" -> <<"P","a","r","i","s"," ","i","s"," ","t","h","e"," ","c","a","p","i","t","a","l"," ","o","f"," ","F","r","a","n","c","e">>
      [] s = "Unrelated biology note" -> <<"U","n","r","e","l","a","t","e","d"," ","b","i","o","l","o","g","y"," ","n","o","t","e">>
      [] s = "France capitals" -> <<"F","r","a","n","c","e"," ","c","a","p","i","t","a","l","s">>
      [] s = "notebook" -> <<"n","o","t","e","b","o","o","k">>
      [] s = "capital of France" -> <<"c","a","p","i","t","a","l"," ","o","f"," ","F","r","a","n","c","e">>
      [] s = "notes" -> <<"n","o","t","e","s">>
      [] s = "hi" -> <<"h","i">>
      [] s = "file" -> <<"f","i","l","e">>
      [] s = "france.pdf" -> <<"f","r","a","n","c","e",".","p","d","f">>

Lowercase == {"a","b","c","d","e","f","g","h","i","j","k","l","m",
              "n","o","p","q","r","s","t","u","v","w","x","y","z"}

\* str.lower() on one character.
LowerChar(c) ==
    CASE c = "P" -> "p"
      [] c = "F" -> "f"
      [] c = "U" -> "u"
      [] OTHER -> c

\* str.lower()
Lower(cs) == [i \in 1..Len(cs) |-> LowerChar(cs[i])]

Whitespace == {" ", "\n", "\t"}

\* str.strip()
RECURSIVE LStrip(_)
LStrip(cs) ==
    IF cs # <<>> /\ Head(cs) \in Whitespace THEN LStrip(Tail(cs)) ELSE cs

RECURSIVE RStrip(_)
RStrip(cs) ==
    IF cs # <<>> /\ cs[Len(cs)] \in Whitespace
    THEN RStrip(SubSeq(cs, 1, Len(cs) - 1))
    ELSE cs

Strip(cs) == RStrip(LStrip(cs))

\* needle in haystack, on character sequences
Contains(haystack, needle) ==
    \E i \in 0..(Len(haystack) - Len(needle)) :
        SubSeq(haystack, i + 1, i + Len(needle)) = needle

EndsWith(cs, suffix) ==
    /\ Len(cs) >= Len(suffix)
    /\ SubSeq(cs, Len(cs) - Len(suffix) + 1, Len(cs)) = suffix

\* re.findall(r"[a-z0-9]+", s): the maximal runs of lower-case letters.
RECURSIVE FindAllRuns(_, _, _)
FindAllRuns(cs, cur, acc) ==
    IF cs = <<>>
    THEN IF cur = <<>> THEN acc ELSE acc \cup {cur}
    ELSE IF Head(cs) \in Lowercase
         THEN FindAllRuns(Tail(cs), Append(cur, Head(cs)), acc)
         ELSE FindAllRuns(Tail(cs), <<>>, IF cur = <<>> THEN acc ELSE acc \cup {cur})

STOPWORDS ==
    { <<"t","h","e">>,
      <<"a","n","d">>,
      <<"f","o","r">>,
      <<"t","h","a","t">>,
      <<"w","i","t","h">>,
      <<"f","r","o","m">>,
      <<"t","h","i","s">>,
      <<"y","o","u","r">>,
      <<"h","a","v","e">>,
      <<"a","b","o","u","t">>,
      <<"w","h","e","n">>,
      <<"w","h","a","t">>,
      <<"w","h","e","r","e">>,
      <<"w","h","i","c","h">>,
      <<"w","i","l","l">>,
      <<"w","o","u","l","d">>,
      <<"c","o","u","l","d">>,
      <<"s","h","o","u","l","d">>,
      <<"i","n","t","o">>,
      <<"s","u","c","h">>,
      <<"w","h","i","l","e">>,
      <<"b","e","e","n">>,
      <<"b","e","i","n","g">>,
      <<"m","a","k","e">>,
      <<"m","a","d","e">>,
      <<"a","l","s","o">>,
      <<"t","h","a","n">>,
      <<"t","h","e","n">>,
      <<"t","h","e","m">> }

\* The tokens one raw run contributes.
TokensOfRaw(raw) ==
    IF Len(raw) <= 2 \/ raw \in STOPWORDS
    THEN {}
    ELSE {raw} \cup
         (IF EndsWith(raw, <<"e","s">>) /\ Len(raw) > 3
          THEN {SubSeq(raw, 1, Len(raw) - 2)}
          ELSE IF EndsWith(raw, <<"s">>) /\ Len(raw) > 3
               THEN {SubSeq(raw, 1, Len(raw) - 1)}
               ELSE {})

\* _tokenize(text), on the characters of text
tokenize(cs) == UNION {TokensOfRaw(raw) : raw \in FindAllRuns(Lower(cs), <<>>, {})}

\* filename of a snippet: h.get("filename") or h.get("file_name") or "file"
SnippetFilename(h) == IF h.filename = "" THEN "file" ELSE h.filename

\* _lexical_score(snippet, query_terms)
lexical_score(sn, query_terms) ==
    LET tokens  == tokenize(Chars(sn.text) \o <<" ">> \o Chars(sn.filename))
        overlap == Cardinality(tokens \cap query_terms)
        lowered == Lower(Chars(sn.text))
    IN  IF overlap = 0 /\ query_terms # {}
           /\ \E term \in query_terms : Contains(lowered, term)
        THEN 1
        ELSE overlap

(* ------------------------------- state --------------------------------- *)

VARIABLES
    \* the request
    q,                    \* payload "q", stripped
    k,                    \* payload "k"
    similarity_threshold, \* payload "similarity_threshold", in hundredths
    include_visual,       \* payload "include_visual"
    \* the collaborators, as this request meets them
    rpc_data,             \* the rows the search RPC returns, in its order
    search_outcome,       \* "ok", "multimodal_error" or "error"
    embed_raises,         \* embed_texts(texts_for_mmr) raises
    gen_answer,           \* the answer text the generation call returns
    gen_citations,        \* meta["citations"] of the generation call, <<>> if none
    gen_raises,           \* the generation call raises
    \* the handler
    pc,                   \* "start", "searched", "filtered", "reranked", "done"
    status,               \* 0 while running, then the HTTP status
    p_match_count,        \* the number of rows asked of the search RPC
    hits,
    max_distance,
    min_distance,
    candidate_snippets,   \* after the first pass
    thresholded,          \* snippets after all filtering
    snippets,             \* snippets after the rerank, handed to generation
    answer_mode,
    notes_part,
    enrichment_part,
    out_answer,
    citations

VARIABLES
    \* one call of _mmr_select
    m_query_vec,            \* the arguments
    m_doc_vecs,
    m_limit,
    m_lambda,         \* in tenths
    m_returned,         \* the call has returned
    m_selected          \* its return value

VARIABLES
    \* one call of split_text
    st_text,              \* the arguments
    st_max_chars,
    st_overlap,
    st_returned,          \* the call has returned
    st_chunks,            \* its return value, or the chunks so far
    st_start              \* start in the loop of split_text, -1 before it

VARIABLES
    \* one ingestion of one document, and a concurrent search
    entry,                \* "ingest_file", "process_document_job", "reembed_user"
    is_pdf,               \* filename.lower().endswith(".pdf")
    file_pages,           \* the text of each page of the file, one page if plain
    provider,             \* PROVIDER: "gemini" or "local"
    encode_delta,         \* rows the local model returns, less the texts given
    failed_calls,         \* the texts for which genai.embed_content raises
    upsert_error,         \* what the upsert raises: "none", "other", "42P10",
                          \* or "42P10_insert" when the fallback insert
                          \* raises as well
    early_error,          \* "none", "documents_insert" or "chunking": the
                          \* step before the embedding that raises
    cleanup_errors,       \* the calls of the rollback that raise
    cleanup_calls,        \* the calls the rollback has made
    ing_pc,               \* where the ingestion stands
    chunk_pairs,
    chunk_rows,           \* rows, once built
    batch_start,          \* start of the next batch
    embed_calls,          \* calls of embed_texts made
    doc_status,           \* the documents row: "absent", "stored", "processing",
                          \* "ready", "error"
    stored_file,          \* the file is in storage
    chunks_table,         \* the chunks rows of the document
    result,               \* "" while running, then "ok" or "error"
    http_status,          \* of upload_document, 0 while running
    search_sees           \* the chunks rows the latest search found

VARIABLES
    \* one call of embed_texts with the gemini provider
    et_texts,             \* the argument
    et_failing,           \* the calls of genai.embed_content that raise
    et_order,             \* which running call completes next: "any",
                          \* "first" (the oldest) or "last" (the newest)
    et_started,           \* calls taken up by a worker thread so far
    et_running,           \* calls under way
    et_results,           \* results, in the order of completion
    et_returned,          \* the call has returned
    et_rows               \* its return value

VARIABLES
    \* the generation calls of concurrent requests
    api_keys,             \* len(API_KEYS)
    key_exhausted,        \* the keys whose quota is used up
    current_key_index,    \* _current_key_index of qa_gemini, process-wide
    ask_pc,               \* per request: "ready", "calling" or "done"
    ask_attempt,          \* per request: attempt of the loop over the keys
    ask_key,              \* per request: the key of the call under way
    ask_outcome           \* per request: "", "answered" or "failed"

VARIABLES
    \* a VectorIndex
    ix_vectors,           \* the rows of self.index, normalized
    ix_chunks,            \* self.chunks
    ix_adds,              \* calls of add so far
    ix_searched,          \* search has been called
    ix_pool,              \* pool of the search
    ix_selected,          \* selected_ids of the search
    ix_results            \* its return value

request == <<q, k, similarity_threshold, include_visual>>

collaborators ==
    <<rpc_data, search_outcome, embed_raises, gen_answer, gen_citations, gen_raises>>

filter_state == <<max_distance, min_distance, candidate_snippets, thresholded>>

response == <<answer_mode, notes_part, enrichment_part, out_answer, citations>>

ask_vars == <<request, collaborators, pc, status, p_match_count, hits, filter_state, snippets, response>>

mmr_vars == <<m_query_vec, m_doc_vecs, m_limit, m_lambda, m_returned, m_selected>>

split_vars ==
    <<st_text, st_max_chars, st_overlap, st_returned, st_chunks, st_start>>

ingest_inputs ==
    <<entry, is_pdf, file_pages, provider, encode_delta, failed_calls, upsert_error,
      early_error, cleanup_errors>>

ingest_vars ==
    <<ingest_inputs, ing_pc, chunk_pairs, chunk_rows, batch_start, embed_calls,
      doc_status, stored_file, chunks_table, result, http_status, search_sees,
      cleanup_calls>>

embed_vars ==
    <<et_texts, et_failing, et_order, et_started, et_running, et_results,
      et_returned, et_rows>>

key_vars ==
    <<api_keys, key_exhausted, current_key_index, ask_pc, ask_attempt, ask_key,
      ask_outcome>>

index_vars ==
    <<ix_vectors, ix_chunks, ix_adds, ix_searched, ix_pool, ix_selected, ix_results>>

vars ==
    <<ask_vars, mmr_vars, split_vars, ingest_vars, embed_vars, key_vars, index_vars>>

(* ------------------------------ vectors -------------------------------- *)

ZeroVec == <<0, 0>>

\* float(u @ v), times 25
Dot(u, v) == u[1] * v[1] + u[2] * v[2]

Min(a, b) == IF a <= b THEN a ELSE b

Max(a, b) == IF a >= b THEN a ELSE b

\* genai.embed_content(...) followed by _l2_normalize: the vector the
\* embedding collaborator gives for a stripped, non-blank text.
embed_content(text) ==
    CASE text = "Paris is the capital of France" -> <<5, 0>>
      [] text = "France capitals"                -> <<4, 3>>
      [] text = "capital of France"              -> <<5, 0>>
      [] text = "notes"                          -> <<3, 4>>
      [] text = "notebook"                       -> <<3, 4>>
      [] text = "Unrelated biology note"         -> <<0, 5>>
      [] OTHER                                   -> ZeroVec

\* texts = [t.strip() for t in texts if (t or "").strip()]
NonBlank(texts) == SelectSeq(texts, LAMBDA t : Strip(Chars(t)) # <<>>)

\* embed_texts(texts): one row per non-blank text, in order.
embed_texts(texts) ==
    LET kept == NonBlank(texts)
    IN  [i \in 1..Len(kept) |-> embed_content(kept[i])]

(* -------------------------------- MMR ---------------------------------- *)

\* Faulty variant of ArgMaxFirst: the last index with the largest value.
RECURSIVE ArgMaxLast(_, _, _)
ArgMaxLast(remaining, sims, best) ==
    IF remaining = <<>>
    THEN best
    ELSE ArgMaxLast(Tail(remaining), sims,
                    IF sims[Head(remaining)] >= sims[best]
                    THEN Head(remaining) ELSE best)

\* max(remaining, key=lambda i: sims[i]): the first index of remaining
\* with the largest value.
RECURSIVE ArgMaxFirst(_, _, _)
ArgMaxFirst(remaining, sims, best) ==
    IF remaining = <<>>
    THEN best
    ELSE ArgMaxFirst(Tail(remaining), sims,
                     IF sims[Head(remaining)] > sims[best]
                     THEN Head(remaining) ELSE best)

\* Faulty variant of Redundancy: the least similarity to a selected row.
RECURSIVE RedundancyMin(_, _, _)
RedundancyMin(i, doc_vecs, selected) ==
    LET d == Dot(doc_vecs[i], doc_vecs[Head(selected)[1]])
    IN  IF Len(selected) = 1
        THEN d
        ELSE Min(d, RedundancyMin(i, doc_vecs, Tail(selected)))

\* redundancy = max(float(doc_vecs[i] @ doc_vecs[j]) for j, _ in selected)
RECURSIVE Redundancy(_, _, _)
Redundancy(i, doc_vecs, selected) ==
    LET d == Dot(doc_vecs[i], doc_vecs[Head(selected)[1]])
    IN  IF Len(selected) = 1
        THEN d
        ELSE Max(d, Redundancy(i, doc_vecs, Tail(selected)))

\* Faulty variant of MmrScore: the default weights whatever lambda_param is.
MmrScoreDefaultLambda(i, sims, doc_vecs, selected, lambda_param) ==
    DefaultLambda * sims[i]
        - (10 - DefaultLambda) * Redundancy(i, doc_vecs, selected)

\* score = lambda_param * float(sims[i]) - (1.0 - lambda_param) * redundancy
MmrScore(i, sims, doc_vecs, selected, lambda_param) ==
    lambda_param * sims[i] - (10 - lambda_param) * Redundancy(i, doc_vecs, selected)

\* The for loop over remaining: <<best_idx, best_score>>, a later index
\* replacing the best only when its score is strictly larger.
RECURSIVE BestRemaining(_, _, _, _, _, _)
BestRemaining(remaining, sims, doc_vecs, selected, lambda_param, best) ==
    IF remaining = <<>>
    THEN best
    ELSE LET i     == Head(remaining)
             score == MmrScore(i, sims, doc_vecs, selected, lambda_param)
         IN  BestRemaining(Tail(remaining), sims, doc_vecs, selected, lambda_param,
                           IF score > best[2] THEN <<i, score>> ELSE best)

\* remaining.remove(idx)
Remove(remaining, idx) == SelectSeq(remaining, LAMBDA i : i # idx)

\* The while loop of _mmr_select.
RECURSIVE MmrLoop(_, _, _, _, _, _)
MmrLoop(sims, doc_vecs, remaining, selected, limit, lambda_param) ==
    IF remaining = <<>> \/ Len(selected) >= limit
    THEN selected
    ELSE IF selected = <<>>
         THEN LET idx == ArgMaxFirst(remaining, sims, Head(remaining))
              IN  MmrLoop(sims, doc_vecs, Remove(remaining, idx),
                          <<<<idx, 10 * sims[idx]>>>>, limit, lambda_param)
         ELSE LET best == BestRemaining(remaining, sims, doc_vecs, selected,
                                        lambda_param, <<0, MinusInfinity>>)
              IN  MmrLoop(sims, doc_vecs, Remove(remaining, best[1]),
                          Append(selected, best), limit, lambda_param)

\* _mmr_select(query_vec, doc_vecs, limit, lambda_param): the selected
\* <<row, score>> pairs in selection order.  Rows are numbered from 1;
\* lambda_param is in tenths and a score is multiplied by 250.
mmr_select(query_vec, doc_vecs, limit, lambda_param) ==
    IF Len(doc_vecs) = 0 \/ limit <= 0
    THEN <<>>
    ELSE MmrLoop([i \in 1..Len(doc_vecs) |-> Dot(doc_vecs[i], query_vec)],
                 doc_vecs, [i \in 1..Len(doc_vecs) |-> i], <<>>, limit, lambda_param)

(* ------------------------- generated answers --------------------------- *)

\* An answer is a sequence of segments.  No phrase the classifier looks for
\* straddles two segments of this catalogue.
MARKER == "<<<ENRICHMENT_START>>>"

AnswerSegments ==
    {"Paris.", " ", MARKER, "couldn't find", "notes", "Hello", "pad50"}

\* len() of a segment; "pad50" stands for fifty characters of ordinary text.
SegLen(seg) ==
    CASE seg = "Paris."        -> 6
      [] seg = " "             -> 1
      [] seg = MARKER          -> 22
      [] seg = "couldn't find" -> 13
      [] seg = "notes"         -> 5
      [] seg = "Hello"         -> 5
      [] seg = "pad50"         -> 50
      [] OTHER                 -> 2

RECURSIVE TextLen(_)
TextLen(segs) == IF segs = <<>> THEN 0 ELSE SegLen(Head(segs)) + TextLen(Tail(segs))

HasSegment(segs, seg) == \E i \in 1..Len(segs) : segs[i] = seg

\* any(greeting in answer_lower[:50] ...): a greeting that lies wholly
\* inside the first fifty characters.
GreetingInWindow(segs) ==
    \E i \in 1..Len(segs) :
        /\ segs[i] = "Hello"
        /\ TextLen(SubSeq(segs, 1, i - 1)) + SegLen("Hello") <= GreetingWindow

\* str.strip() on segments: the blank segments at both ends go.
RECURSIVE StripSegs(_)
StripSegs(segs) ==
    IF segs # <<>> /\ Head(segs) = " " THEN StripSegs(Tail(segs))
    ELSE IF segs # <<>> /\ segs[Len(segs)] = " "
         THEN StripSegs(SubSeq(segs, 1, Len(segs) - 1))
         ELSE segs

\* The position of the first marker, 0 if there is none.
RECURSIVE FirstMarker(_, _)
FirstMarker(segs, i) ==
    IF i > Len(segs) THEN 0
    ELSE IF segs[i] = MARKER THEN i ELSE FirstMarker(segs, i + 1)

\* Faulty variant of has_relevant_docs: the cutoff itself counts as relevant.
has_relevant_docs_inclusive(min_dist) == min_dist <= RelevanceCutoff

\* has_relevant_docs
has_relevant_docs(min_dist) == min_dist < RelevanceCutoff

\* has_not_found_phrase
has_not_found_phrase(answer) ==
    HasSegment(answer, "couldn't find") /\ HasSegment(answer, "notes")

\* _detect_answer_mode(answer, min_distance)
detect_answer_mode(answer, min_dist) ==
    LET has_enrichment == HasSegment(answer, MARKER)
        is_greeting    == GreetingInWindow(answer)
    IN  IF ~has_relevant_docs(min_dist) \/ has_not_found_phrase(answer) \/ is_greeting
        THEN "model_only"
        ELSE IF has_enrichment THEN "mixed" ELSE "notes_only"

(* ------------------------------ sorting -------------------------------- *)

\* Sort keys are pairs <<a, b>> compared as Python compares tuples.
KeyLess(x, y) == x[1] < y[1] \/ (x[1] = y[1] /\ x[2] < y[2])

\* list.sort is stable: an entry <<key, item>> goes before the first entry
\* whose key is strictly larger.
RECURSIVE InsertSorted(_, _)
InsertSorted(sorted, x) ==
    IF sorted = <<>>
    THEN <<x>>
    ELSE IF KeyLess(x[1], Head(sorted)[1])
         THEN <<x>> \o sorted
         ELSE <<Head(sorted)>> \o InsertSorted(Tail(sorted), x)

RECURSIVE SortEntries(_)
SortEntries(entries) ==
    IF entries = <<>>
    THEN <<>>
    ELSE InsertSorted(SortEntries(SubSeq(entries, 1, Len(entries) - 1)),
                      entries[Len(entries)])

\* seq sorted by ascending keys[i], stable; reverse=True is the stable sort
\* by the negated key.
StableSort(seq, keys) ==
    LET sorted == SortEntries([i \in 1..Len(seq) |-> <<keys[i], seq[i]>>])
    IN  [i \in 1..Len(seq) |-> sorted[i][2]]

\* seq[:n]
Take(seq, n) == SubSeq(seq, 1, Min(n, Len(seq)))

(* ------------------------------- search -------------------------------- *)

\* A row the search RPC returns without a "distance" key has distance Missing.
Missing == -1

\* r.get("distance", 0.0), the sort key of search_multimodal and search_chunks
SortKey(r) == IF r.distance = Missing THEN 0 ELSE r.distance

\* data.sort(key=lambda r: r.get("distance", 0.0))
SortByDistance(data) ==
    StableSort(data, [i \in 1..Len(data) |-> <<SortKey(data[i]), 0>>])

\* search_multimodal(...): the rows sorted by distance, the first k of them
search_multimodal(data, fetch_k) == Take(SortByDistance(data), fetch_k)

\* search_chunks(...): the rows sorted by distance
search_chunks(data) == SortByDistance(data)

(* --------------------------- threshold filter -------------------------- *)

\* max_distance = 2.0 * (1.0 - similarity_threshold), in hundredths
MaxDistance(threshold) == 2 * (100 - threshold)

\* distance = h.get("distance", 1.0)
HitDistance(h) == IF h.distance = Missing THEN DefaultDistance ELSE h.distance

\* Faulty variant of PassesThreshold: the bound is exclusive.
PassesThresholdStrict(distance, max_dist) == distance < max_dist

\* Faulty variant of PassesThreshold: every hit passes.
PassesThresholdAlways(distance, max_dist) == TRUE

\* if distance <= max_distance
PassesThreshold(distance, max_dist) == distance <= max_dist

\* The snippet built from a hit that passed.
Snippet(h) ==
    [id |-> h.id, filename |-> SnippetFilename(h), text |-> h.text,
     distance |-> HitDistance(h)]

\* The first pass: the snippets of the hits that pass, in the order of the hits.
RECURSIVE FirstPass(_, _)
FirstPass(hs, max_dist) ==
    IF hs = <<>>
    THEN <<>>
    ELSE (IF PassesThreshold(HitDistance(Head(hs)), max_dist)
          THEN <<Snippet(Head(hs))>> ELSE <<>>) \o FirstPass(Tail(hs), max_dist)

\* Faulty variant of UpdateMin: only a hit that passes the threshold counts.
UpdateMinIfKept(distance, current) ==
    IF distance <= MaxDistance(similarity_threshold) /\ distance < current
    THEN distance ELSE current

\* if distance is not None and distance < min_distance: min_distance = distance
UpdateMin(distance, current) ==
    IF distance < current THEN distance ELSE current

\* Faulty variant of TrackMinDistance: min_distance starts at 0.0, not at inf.
RECURSIVE TrackMinDistanceFromZero(_, _)
TrackMinDistanceFromZero(hs, current) ==
    LET start == IF current = Infinity THEN 0 ELSE current
    IN  IF hs = <<>>
        THEN start
        ELSE TrackMinDistanceFromZero(Tail(hs),
                                      UpdateMin(HitDistance(Head(hs)), start))

\* min_distance after the loop over the hits, Infinity when there is none.
RECURSIVE TrackMinDistance(_, _)
TrackMinDistance(hs, current) ==
    IF hs = <<>>
    THEN current
    ELSE TrackMinDistance(Tail(hs), UpdateMin(HitDistance(Head(hs)), current))

\* The condition under which the secondary filter runs.
SecondaryApplies(cands, min_dist) ==
    cands # <<>> /\ min_dist # Infinity /\ Len(cands) > SecondaryTrigger

\* Faulty variant of SecondPass: the cutoff is exclusive.
SecondPassStrict(cands, min_dist) ==
    SelectSeq(cands, LAMBDA sn : sn.distance < min_dist + SecondaryMargin)

\* if sn["distance"] <= distance_cutoff
SecondPass(cands, min_dist) ==
    SelectSeq(cands, LAMBDA sn : sn.distance <= min_dist + SecondaryMargin)

\* snippets after both passes
Thresholded(cands, min_dist) ==
    IF SecondaryApplies(cands, min_dist) THEN SecondPass(cands, min_dist) ELSE cands

(* ------------------------------- rerank -------------------------------- *)

\* Faulty variant of MmrLimit: every candidate is selected.
MmrLimitUncapped(kk, n) == n

\* mmr_limit = min(k * 2, len(snippets_for_mmr))
MmrLimit(kk, n) == Min(kk * 2, n)

\* np.zeros((len(snippets_for_mmr), dim)) when embed_texts raises, else
\* np.asarray(embed_texts(texts_for_mmr))
DocVecs(texts_for_mmr, raises) ==
    IF raises
    THEN [i \in 1..Len(texts_for_mmr) |-> ZeroVec]
    ELSE embed_texts(texts_for_mmr)

\* scored: <<combined, lex, idx>> for every <<idx, mmr_score>> selected
Scored(selected, lex_scores) ==
    [j \in 1..Len(selected) |->
        LET idx == selected[j][1]
            lex == IF idx <= Len(lex_scores) THEN lex_scores[idx] ELSE 0
        IN  <<selected[j][2] + 25 * lex, lex, idx>>]

\* Faulty variant of SortScored: the selection order is kept.
SortScoredNot(scored) == scored

\* scored.sort(key=lambda item: (item[0], item[1]), reverse=True)
SortScored(scored) ==
    StableSort(scored, [j \in 1..Len(scored) |-> <<-scored[j][1], -scored[j][2]>>])

\* The fallback when _mmr_select returns nothing:
\* the first k * 2 snippets by descending lexical score.
LexicalFallback(snips, query_terms, kk) ==
    Take(StableSort(snips, [i \in 1..Len(snips) |->
                               <<-lexical_score(snips[i], query_terms), 0>>]),
         kk * 2)

\* The whole rerank block: the final snippets.
Rerank(snips, query_terms, query_vec, kk, raises) ==
    IF snips = <<>>
    THEN <<>>
    ELSE LET lex_scores       == [i \in 1..Len(snips) |->
                                     lexical_score(snips[i], query_terms)]
             snippets_for_mmr == Take(snips, Min(MmrInputLimit, Len(snips)))
             texts_for_mmr    == [i \in 1..Len(snippets_for_mmr) |->
                                     snippets_for_mmr[i].text]
             vecs             == DocVecs(texts_for_mmr, raises)
             mmr_limit        == MmrLimit(kk, Len(snippets_for_mmr))
             mmr_selected     == mmr_select(query_vec, vecs, mmr_limit, DefaultLambda)
             scored           == SortScored(Scored(mmr_selected, lex_scores))
         IN  IF mmr_selected # <<>>
             THEN [j \in 1..Len(scored) |-> snippets_for_mmr[scored[j][3]]]
             ELSE LexicalFallback(snips, query_terms, kk)

(* ---------------------- classification, citations ---------------------- *)

\* Faulty variant of EffectiveMinDistance: no hit counts as a perfect match.
EffectiveMinDistanceZero(min_dist) ==
    IF min_dist # Infinity THEN min_dist ELSE 0

\* effective_min_distance
EffectiveMinDistance(min_dist) ==
    IF min_dist # Infinity THEN min_dist ELSE NoHitMinDistance

\* Faulty variant of NotesPart: the text before the marker, untrimmed.
NotesPartUntrimmed(answer) == SubSeq(answer, 1, FirstMarker(answer, 1) - 1)

\* parts[0].strip() of out_answer.split(MARKER, 1)
NotesPart(answer) == StripSegs(SubSeq(answer, 1, FirstMarker(answer, 1) - 1))

\* parts[1].strip()
EnrichmentPart(answer) ==
    StripSegs(SubSeq(answer, FirstMarker(answer, 1) + 1, Len(answer)))

\* Faulty variant of Citations: the whole selection is cited.
CitationsUntruncated(mode, meta_citations, snips, kk) ==
    IF mode \in {"notes_only", "mixed"}
    THEN IF meta_citations # <<>> THEN meta_citations ELSE snips
    ELSE <<>>

\* citations = (meta or {}).get("citations") or snippets[:k], for the
\* modes that cite
Citations(mode, meta_citations, snips, kk) ==
    IF mode \in {"notes_only", "mixed"}
    THEN IF meta_citations # <<>> THEN meta_citations ELSE Take(snips, kk)
    ELSE <<>>

(* ------------------- the parts of the program at rest ------------------- *)

\* No request is being handled by ask_notes.
AskIdle ==
    /\ q = ""
    /\ k = 0
    /\ similarity_threshold = 0
    /\ include_visual = FALSE
    /\ rpc_data = <<>>
    /\ search_outcome = "ok"
    /\ embed_raises = FALSE
    /\ gen_answer = <<>>
    /\ gen_citations = <<>>
    /\ gen_raises = FALSE
    /\ pc = "done"
    /\ status = 0
    /\ p_match_count = 0
    /\ hits = <<>>
    /\ max_distance = 0
    /\ min_distance = Infinity
    /\ candidate_snippets = <<>>
    /\ thresholded = <<>>
    /\ snippets = <<>>
    /\ answer_mode = ""
    /\ notes_part = <<>>
    /\ enrichment_part = <<>>
    /\ out_answer = <<>>
    /\ citations = <<>>

\* No call of _mmr_select is under way.
MmrIdle ==
    /\ m_query_vec = ZeroVec
    /\ m_doc_vecs = <<>>
    /\ m_limit = 0
    /\ m_lambda = DefaultLambda
    /\ m_returned = TRUE
    /\ m_selected = <<>>

\* No call of split_text is under way.
SplitIdle ==
    /\ st_text = <<>>
    /\ st_max_chars = 1
    /\ st_overlap = 0
    /\ st_returned = TRUE
    /\ st_chunks = <<>>
    /\ st_start = -1

\* No ingestion is under way and the document has no chunks.
IngestIdle ==
    /\ entry = "ingest_file"
    /\ is_pdf = FALSE
    /\ file_pages = <<>>
    /\ provider = "gemini"
    /\ encode_delta = 0
    /\ failed_calls = {}
    /\ upsert_error = "none"
    /\ early_error = "none"
    /\ cleanup_errors = {}
    /\ cleanup_calls = {}
    /\ ing_pc = "done"
    /\ chunk_pairs = <<>>
    /\ chunk_rows = <<>>
    /\ batch_start = 0
    /\ embed_calls = 0
    /\ doc_status = "absent"
    /\ stored_file = FALSE
    /\ chunks_table = {}
    /\ result = ""
    /\ http_status = 0
    /\ search_sees = {}

\* No call of embed_texts is under way.
EmbedIdle ==
    /\ et_texts = <<>>
    /\ et_failing = {}
    /\ et_order = "any"
    /\ et_started = 0
    /\ et_running = {}
    /\ et_results = <<>>
    /\ et_returned = TRUE
    /\ et_rows = <<>>

\* No generation call is under way.
KeysIdle ==
    /\ api_keys = 1
    /\ key_exhausted = {}
    /\ current_key_index = 0
    /\ ask_pc = <<>>
    /\ ask_attempt = <<>>
    /\ ask_key = <<>>
    /\ ask_outcome = <<>>

\* A VectorIndex as it is constructed, never searched.
IndexIdle ==
    /\ ix_vectors = <<>>
    /\ ix_chunks = <<>>
    /\ ix_adds = 0
    /\ ix_searched = FALSE
    /\ ix_pool = 0
    /\ ix_selected = <<>>
    /\ ix_results = <<>>

(* ------------------------------- inputs -------------------------------- *)

\* payload.get("max_chunks", 30)
DefaultMaxChunks == 30

\* payload.get("similarity_threshold", 0.60), a stricter and a laxer one
Thresholds == {50, 60, 90}

PlainChunk == [text |-> "Paris is the capital of France", filename |-> ""]

\* Contents of the chunks a search may return.
Chunks ==
    { PlainChunk,
      [text |-> "France capitals", filename |-> "france.pdf"],
      [text |-> "Unrelated biology note", filename |-> ""],
      [text |-> "", filename |-> ""] }

Row(distance, chunk) ==
    [distance |-> distance, text |-> chunk.text, filename |-> chunk.filename]

\* rows with their position in the RPC result as identity
WithIds(rows) ==
    [i \in 1..Len(rows) |->
        [id |-> i, distance |-> rows[i].distance, text |-> rows[i].text,
         filename |-> rows[i].filename]]

SeqsUpTo(S, n) == UNION {[1..m -> S] : m \in 0..n}

\* Distances around the cutoffs of the filter.
FilterDistances == {10, 35, 36, 80, 81, Missing}

\* Few rows, every distance.
FilterData ==
    {WithIds(s) : s \in SeqsUpTo({Row(d, PlainChunk) : d \in FilterDistances}, MaxHits)}

\* More than SecondaryTrigger rows: a of them at distance 0.10, the rest at
\* one other distance.
BigData ==
    {WithIds([i \in 1..t[1] |-> Row(IF i <= t[2] THEN 10 ELSE t[3], PlainChunk)]) :
        t \in {u \in ((SecondaryTrigger + 1)..MaxBigHits) \X (0..MaxBigHits)
                     \X {35, 36, 81, Missing} : u[2] <= u[1]}}

\* One row more than the MMR stage takes: rows without text at distance
\* 0.10, then a row with text at distance 0.35.
BlankData ==
    WithIds([i \in 1..(MmrInputLimit + 1) |->
                IF i <= MmrInputLimit
                THEN Row(10, [text |-> "", filename |-> ""])
                ELSE Row(35, PlainChunk)])

\* Few rows, every chunk content, near or far.
RerankRows ==
    {Row(10, c) : c \in Chunks} \cup {Row(140, [text |-> "Unrelated biology note", filename |-> ""])}

RerankData == {WithIds(s) : s \in SeqsUpTo(RerankRows, MaxHits)}

\* At most one row, around the relevance cutoff.
ClassifyData ==
    {<<>>} \cup {WithIds(<<Row(d, PlainChunk)>>) : d \in {10, 74, 75, 76}}

Answers == SeqsUpTo(AnswerSegments, MaxAnswerLen)

PlainAnswer == <<"Paris.">>

\* A citation the generation collaborator declares.
DeclaredCitation ==
    [id |-> 0, filename |-> "france.pdf", text |-> "notes", distance |-> 0]

\* The variables of the handler before it runs.
Fresh ==
    /\ pc = "start"
    /\ status = 0
    /\ p_match_count = 0
    /\ hits = <<>>
    /\ max_distance = 0
    /\ min_distance = Infinity
    /\ candidate_snippets = <<>>
    /\ thresholded = <<>>
    /\ snippets = <<>>
    /\ answer_mode = ""
    /\ notes_part = <<>>
    /\ enrichment_part = <<>>
    /\ out_answer = <<>>
    /\ citations = <<>>

\* Requests that exercise the filter.
InitFilter ==
    /\ q = "capital of France"
    /\ k \in (1..MaxK) \cup {MaxValidK}
    /\ similarity_threshold \in Thresholds
    /\ include_visual = TRUE
    /\ rpc_data \in FilterData \cup BigData \cup {BlankData}
    /\ search_outcome = "ok"
    /\ embed_raises \in BOOLEAN
    /\ gen_answer = PlainAnswer
    /\ gen_citations = <<>>
    /\ gen_raises = FALSE

\* Requests that exercise validation and the search paths.
InitSearch ==
    /\ q \in {"capital of France", "notes", "hi", ""}
    /\ k \in (0..MaxK) \cup {MaxValidK + 1}
    /\ similarity_threshold = 60
    /\ include_visual \in BOOLEAN
    /\ rpc_data \in ClassifyData
    /\ search_outcome \in {"ok", "multimodal_error", "error"}
    /\ embed_raises = FALSE
    /\ gen_answer = PlainAnswer
    /\ gen_citations = <<>>
    /\ gen_raises = FALSE

\* Requests that exercise the rerank.
InitRerank ==
    /\ q \in {"capital of France", "notes"}
    /\ k \in 1..MaxK
    /\ similarity_threshold = 60
    /\ include_visual = TRUE
    /\ rpc_data \in RerankData
    /\ search_outcome = "ok"
    /\ embed_raises \in BOOLEAN
    /\ gen_answer = PlainAnswer
    /\ gen_citations = <<>>
    /\ gen_raises = FALSE

\* Requests that exercise the classification of the answer.
InitClassify ==
    /\ q = "capital of France"
    /\ k = 1
    /\ similarity_threshold = 60
    /\ include_visual = TRUE
    /\ rpc_data \in ClassifyData
    /\ search_outcome = "ok"
    /\ embed_raises = FALSE
    /\ gen_answer \in Answers
    /\ gen_citations \in {<<>>, <<DeclaredCitation>>}
    /\ gen_raises \in BOOLEAN

Init ==
    /\ Fresh
    /\ InitFilter \/ InitSearch \/ InitRerank \/ InitClassify
    /\ MmrIdle
    /\ SplitIdle
    /\ IngestIdle
    /\ EmbedIdle
    /\ KeysIdle
    /\ IndexIdle

(* ------------------------------- actions ------------------------------- *)

\* len(q)
QuestionLen == Len(Chars(q))

\* The four checks that end the request with 400.
Invalid == QuestionLen = 0 \/ QuestionLen < MinQuestionLen \/ k < 1 \/ k > MaxValidK

\* raise HTTPException(status_code=400, ...)
Reject ==
    /\ pc = "start"
    /\ Invalid
    /\ pc' = "done"
    /\ status' = 400
    /\ UNCHANGED <<mmr_vars, split_vars, ingest_vars, embed_vars, key_vars, index_vars, request, collaborators, p_match_count, hits, filter_state, snippets, response>>

\* The search block did not raise.
SearchSucceeds ==
    \/ search_outcome = "ok"
    \/ search_outcome = "multimodal_error"

\* hits of the search block: the multimodal search, or the text search when
\* the multimodal one raised or is switched off.
SearchHits ==
    IF include_visual /\ search_outcome = "ok"
    THEN search_multimodal(rpc_data, DefaultMaxChunks)
    ELSE search_chunks(rpc_data)

\* q_vec = embed_query(q); hits = search...(...)
Search ==
    /\ pc = "start"
    /\ ~Invalid
    /\ IF SearchSucceeds
       THEN /\ p_match_count' = DefaultMaxChunks
            /\ hits' = SearchHits
            /\ pc' = "searched"
            /\ status' = status
       ELSE /\ p_match_count' = p_match_count
            /\ hits' = hits
            /\ pc' = "done"
            /\ status' = 500
    /\ UNCHANGED <<mmr_vars, split_vars, ingest_vars, embed_vars, key_vars, index_vars, request, collaborators, filter_state, snippets, response>>

\* The first pass and the optional secondary filter.
Filter ==
    /\ pc = "searched"
    /\ max_distance' = MaxDistance(similarity_threshold)
    /\ min_distance' = TrackMinDistance(hits, Infinity)
    /\ candidate_snippets' = FirstPass(hits, max_distance')
    /\ thresholded' = Thresholded(candidate_snippets', min_distance')
    /\ pc' = "filtered"
    /\ UNCHANGED <<mmr_vars, split_vars, ingest_vars, embed_vars, key_vars, index_vars, request, collaborators, status, p_match_count, hits, snippets, response>>

\* The MMR block.
RerankStep ==
    /\ pc = "filtered"
    /\ snippets' = Rerank(thresholded, tokenize(Chars(q)), embed_content(q), k,
                          embed_raises)
    /\ pc' = "reranked"
    /\ UNCHANGED <<mmr_vars, split_vars, ingest_vars, embed_vars, key_vars, index_vars, request, collaborators, status, p_match_count, hits, filter_state, response>>

\* The generation call raised: HTTP 500.
GenerationFails ==
    /\ pc = "reranked"
    /\ gen_raises
    /\ pc' = "done"
    /\ status' = 500
    /\ UNCHANGED <<mmr_vars, split_vars, ingest_vars, embed_vars, key_vars, index_vars, request, collaborators, p_match_count, hits, filter_state, snippets, response>>

\* The generation call, the mode, the split, the citations and the result.
Answer ==
    /\ pc = "reranked"
    /\ ~gen_raises
    /\ LET mode  == detect_answer_mode(gen_answer, EffectiveMinDistance(min_distance))
           split == mode = "mixed" /\ HasSegment(gen_answer, MARKER)
           np    == IF split THEN NotesPart(gen_answer) ELSE <<>>
           ep    == IF split THEN EnrichmentPart(gen_answer) ELSE <<>>
       IN  /\ answer_mode' = mode
           /\ notes_part' = IF mode = "mixed" THEN np ELSE <<>>
           /\ enrichment_part' = IF mode = "mixed" THEN ep ELSE <<>>
           /\ out_answer' = IF ~split THEN gen_answer
                            ELSE IF ep # <<>> THEN np \o <<"\n\n">> \o ep ELSE np
           /\ citations' = Citations(mode, gen_citations, snippets, k)
    /\ pc' = "done"
    /\ status' = 200
    /\ UNCHANGED <<mmr_vars, split_vars, ingest_vars, embed_vars, key_vars, index_vars, request, collaborators, p_match_count, hits, filter_state, snippets>>

Next == Reject \/ Search \/ Filter \/ RerankStep \/ GenerationFails \/ Answer

Spec == Init /\ [][Next]_vars

(* ------------------------ _mmr_select on its own ------------------------ *)

MaxDocs == 4

\* L2-normalized rows as embed_texts returns them (norm 5 here), and the
\* zero row of a failed embedding call.
Vectors == {<<5, 0>>, <<4, 3>>, <<3, 4>>, <<0, 5>>, ZeroVec}

\* Every small matrix of rows; or, in hundredths, a query and three rows of
\* relevance 0.90, 0.85 and 0.50, the second next to the first, the third
\* far from both.
MmrInit ==
    /\ \/ /\ m_query_vec \in {<<5, 0>>, <<4, 3>>}
          /\ m_doc_vecs \in SeqsUpTo(Vectors, MaxDocs)
          /\ m_limit \in 0..MaxDocs
          /\ m_lambda \in {0, DefaultLambda, 10}
       \/ /\ m_query_vec = <<100, 0>>
          /\ m_doc_vecs = << <<90, 44>>, <<85, 53>>, <<50, -87>> >>
          /\ m_limit \in 1..3
          /\ m_lambda = DefaultLambda
    /\ m_returned = FALSE
    /\ m_selected = <<>>
    /\ AskIdle
    /\ SplitIdle
    /\ IngestIdle
    /\ EmbedIdle
    /\ KeysIdle
    /\ IndexIdle

\* selected = _mmr_select(query_vec, doc_vecs, limit, lambda_param)
MmrSelect ==
    /\ ~m_returned
    /\ m_selected' = mmr_select(m_query_vec, m_doc_vecs, m_limit, m_lambda)
    /\ m_returned' = TRUE
    /\ UNCHANGED <<ask_vars, split_vars, ingest_vars, embed_vars, key_vars, index_vars, m_query_vec, m_doc_vecs, m_limit, m_lambda>>

MmrSpec == MmrInit /\ [][MmrSelect]_vars

(* ------------------------------ split_text ------------------------------ *)

MaxTextLen == 5

MaxChars == 3

\* The characters U+2013 and U+2014, each one character of a text.
Dashes == {"EN DASH", "EM DASH"}

\* s.replace("–", "-").replace("—", "-")
ReplaceDashes(cs) ==
    [i \in 1..Len(cs) |-> IF cs[i] \in Dashes THEN "-" ELSE cs[i]]

\* re.sub(r"[ \t]+", " ", s)
RECURSIVE CollapseBlanks(_, _)
CollapseBlanks(cs, in_run) ==
    IF cs = <<>>
    THEN <<>>
    ELSE IF Head(cs) \in {" ", "\t"}
         THEN (IF in_run THEN <<>> ELSE <<" ">>) \o CollapseBlanks(Tail(cs), TRUE)
         ELSE <<Head(cs)>> \o CollapseBlanks(Tail(cs), FALSE)

\* _normalize(s)
normalize(cs) == Strip(CollapseBlanks(ReplaceDashes(cs), FALSE))

\* Faulty variant of NextStart: the next window starts where this one ends.
NextStartNoOverlap(end, overlap) == end

\* start = max(0, end - overlap)
NextStart(end, overlap) == Max(0, end - overlap)

\* The while loop of split_text; start counts from 0.
RECURSIVE SplitLoop(_, _, _, _, _)
SplitLoop(t, start, max_chars, overlap, chunks) ==
    IF ~(start < Len(t))
    THEN chunks
    ELSE LET end    == Min(Len(t), start + max_chars)
             longer == Append(chunks, SubSeq(t, start + 1, end))
         IN  IF end = Len(t)
             THEN longer
             ELSE SplitLoop(t, NextStart(end, overlap), max_chars, overlap, longer)

\* split_text(text, max_chars, overlap)
split_text(text, max_chars, overlap) ==
    LET t == normalize(text)
    IN  IF t = <<>> THEN <<>> ELSE SplitLoop(t, 0, max_chars, overlap, <<>>)

\* Calls with 0 <= overlap < max_chars; with a larger overlap the loop of
\* split_text does not advance.
SplitInit ==
    /\ st_text \in SeqsUpTo({"a", " ", "\t", "\n", "EN DASH"}, MaxTextLen)
    /\ st_max_chars \in 1..MaxChars
    /\ st_overlap \in 0..(st_max_chars - 1)
    /\ st_returned = FALSE
    /\ st_chunks = <<>>
    /\ st_start = -1
    /\ AskIdle
    /\ MmrIdle
    /\ IngestIdle
    /\ EmbedIdle
    /\ KeysIdle
    /\ IndexIdle

\* chunks = split_text(text, max_chars, overlap)
SplitText ==
    /\ ~st_returned
    /\ st_chunks' = split_text(st_text, st_max_chars, st_overlap)
    /\ st_returned' = TRUE
    /\ UNCHANGED <<ask_vars, mmr_vars, ingest_vars, embed_vars, key_vars, index_vars, st_text, st_max_chars, st_overlap,
                   st_start>>

SplitSpec == SplitInit /\ [][SplitText]_vars

(* ---------------------- split_text, step by step ----------------------- *)

\* Calls with any overlap, also overlap >= max_chars.
SplitStepInit ==
    /\ st_text \in SeqsUpTo({"a", " "}, MaxTextLen)
    /\ st_max_chars \in 1..MaxChars
    /\ st_overlap \in 0..(MaxChars + 1)
    /\ st_returned = FALSE
    /\ st_chunks = <<>>
    /\ st_start = -1
    /\ AskIdle
    /\ MmrIdle
    /\ IngestIdle
    /\ EmbedIdle
    /\ KeysIdle
    /\ IndexIdle

\* t = _normalize(text); if not t: return []; chunks = []; start = 0
SplitBegin ==
    /\ ~st_returned
    /\ st_start = -1
    /\ st_start' = 0
    /\ st_returned' = (normalize(st_text) = <<>>)
    /\ UNCHANGED <<ask_vars, mmr_vars, ingest_vars, embed_vars, key_vars, index_vars,
                   st_text, st_max_chars, st_overlap, st_chunks>>

\* One iteration of the while loop, or its end when start >= n.  The
\* chunks kept here are at most two more than the text has characters.
SplitIterate ==
    /\ ~st_returned
    /\ st_start >= 0
    /\ Len(st_chunks) <= MaxTextLen + 1
    /\ LET t   == normalize(st_text)
           end == Min(Len(t), st_start + st_max_chars)
       IN  IF ~(st_start < Len(t))
           THEN /\ st_returned' = TRUE
                /\ UNCHANGED <<st_chunks, st_start>>
           ELSE /\ st_chunks' = Append(st_chunks, SubSeq(t, st_start + 1, end))
                /\ IF end = Len(t)
                   THEN /\ st_returned' = TRUE
                        /\ st_start' = st_start
                   ELSE /\ st_returned' = FALSE
                        /\ st_start' = NextStart(end, st_overlap)
    /\ UNCHANGED <<ask_vars, mmr_vars, ingest_vars, embed_vars, key_vars, index_vars,
                   st_text, st_max_chars, st_overlap>>

\* The interpreter goes on running the call.
SplitStepSpec ==
    /\ SplitStepInit
    /\ [][SplitBegin \/ SplitIterate]_vars
    /\ WF_vars(SplitBegin \/ SplitIterate)

(* ------------------------------ ingestion ------------------------------- *)

MaxPageLen == 3

MaxPages == 2

\* The default window of _pdf_chunks and _plain_chunks, 360 characters with
\* 90 shared, at the scale of pages of a few characters.
ChunkChars == 2

ChunkOverlap == 1

\* BATCH
Batch == 200

\* s.splitlines(), cur being the line read so far.
RECURSIVE SplitLines(_, _)
SplitLines(cs, cur) ==
    IF cs = <<>>
    THEN IF cur = <<>> THEN <<>> ELSE <<cur>>
    ELSE IF Head(cs) = "\n"
         THEN <<cur>> \o SplitLines(Tail(cs), <<>>)
         ELSE SplitLines(Tail(cs), Append(cur, Head(cs)))

\* "\n".join(ln.strip() for ln in lines if ln.strip())
RECURSIVE JoinLines(_)
JoinLines(lines) ==
    IF lines = <<>>
    THEN <<>>
    ELSE LET ln   == Strip(Head(lines))
             rest == JoinLines(Tail(lines))
         IN  IF ln = <<>> THEN rest
             ELSE IF rest = <<>> THEN ln
             ELSE ln \o <<"\n">> \o rest

\* _sanitize_text(s); "NUL" is the character "\x00".
sanitize_text(cs) ==
    Strip(JoinLines(SplitLines([i \in 1..Len(cs) |->
                                   IF cs[i] = "NUL" THEN " " ELSE cs[i]], <<>>)))

\* Faulty variant of collect_chunks: a repeated text is kept.
RECURSIVE collect_chunks_repeats(_, _)
collect_chunks_repeats(pairs, seen) ==
    IF pairs = <<>>
    THEN <<>>
    ELSE LET key == sanitize_text(Head(pairs)[2])
         IN  IF key = <<>>
             THEN collect_chunks_repeats(Tail(pairs), seen)
             ELSE <<<<Head(pairs)[1], key>>>>
                      \o collect_chunks_repeats(Tail(pairs), seen \cup {key})

\* _collect_chunks(pairs) of ingest_pg, seen being the keys met so far.
RECURSIVE collect_chunks(_, _)
collect_chunks(pairs, seen) ==
    IF pairs = <<>>
    THEN <<>>
    ELSE LET key == sanitize_text(Head(pairs)[2])
         IN  IF key = <<>> \/ key \in seen
             THEN collect_chunks(Tail(pairs), seen)
             ELSE <<<<Head(pairs)[1], key>>>>
                      \o collect_chunks(Tail(pairs), seen \cup {key})

\* The pieces _pdf_chunks and _plain_chunks of ingest_pg append, pages from
\* page number p on: the sanitized, non-empty windows of each sanitized page.
RECURSIVE pieces(_, _)
pieces(pages, p) ==
    IF pages = <<>>
    THEN <<>>
    ELSE LET segs  == split_text(sanitize_text(Head(pages)), ChunkChars, ChunkOverlap)
             clean == SelectSeq([i \in 1..Len(segs) |-> sanitize_text(segs[i])],
                                LAMBDA seg : seg # <<>>)
         IN  [i \in 1..Len(clean) |-> <<p, clean[i]>>] \o pieces(Tail(pages), p + 1)

\* _pdf_chunks(file_bytes) or _plain_chunks(file_bytes) of ingest_pg
ingest_chunks(pages) == collect_chunks(pieces(pages, 1), {})

\* _collect_chunks(pairs) of reembed: the key is stripped, the chunk is not.
RECURSIVE reembed_collect_chunks(_, _)
reembed_collect_chunks(pairs, seen) ==
    IF pairs = <<>>
    THEN <<>>
    ELSE LET key == Strip(Head(pairs)[2])
         IN  IF key = <<>> \/ key \in seen
             THEN reembed_collect_chunks(Tail(pairs), seen)
             ELSE <<Head(pairs)>>
                      \o reembed_collect_chunks(Tail(pairs), seen \cup {key})

\* The pieces of _pdf_chunks and _text_chunks of reembed.
RECURSIVE reembed_pieces(_, _)
reembed_pieces(pages, p) ==
    IF pages = <<>>
    THEN <<>>
    ELSE LET segs == split_text(JoinLines(SplitLines(Head(pages), <<>>)),
                                ChunkChars, ChunkOverlap)
         IN  [i \in 1..Len(segs) |-> <<p, segs[i]>>] \o reembed_pieces(Tail(pages), p + 1)

\* _chunk_by_mime(filename, b)
chunk_by_mime(pages) == reembed_collect_chunks(reembed_pieces(pages, 1), {})

\* A row of embed_texts says which text it was computed from and by what:
\* "gemini", "local", "old" for an earlier model, "zero" for the zero row.
Embedding(text, by) == [of |-> text, by |-> by]

ZeroRow == Embedding(<<>>, "zero")

\* Faulty variant of embed_rows: the final count check is missing.
embed_rows_unchecked(texts, prov, failed, delta) ==
    LET kept == SelectSeq([i \in 1..Len(texts) |-> Strip(texts[i])],
                          LAMBDA t : t # <<>>)
    IN  IF kept = <<>> \/ prov = "gemini"
        THEN [raised |-> FALSE,
              rows   |-> [i \in 1..Len(kept) |->
                             IF i \in failed THEN ZeroRow
                             ELSE Embedding(kept[i], "gemini")]]
        ELSE [raised |-> FALSE,
              rows   |-> [i \in 1..Max(0, Len(kept) + delta) |->
                             IF i <= Len(kept) THEN Embedding(kept[i], "local")
                             ELSE ZeroRow]]

\* embed_texts(texts) with its collaborators: a gemini call that raises
\* gives the zero row; a local model that returns another number of rows
\* than it was given texts makes embed_texts raise.
embed_rows(texts, prov, failed, delta) ==
    LET kept == SelectSeq([i \in 1..Len(texts) |-> Strip(texts[i])],
                          LAMBDA t : t # <<>>)
    IN  IF kept = <<>>
        THEN [raised |-> FALSE, rows |-> <<>>]
        ELSE IF prov = "gemini"
        THEN [raised |-> FALSE,
              rows   |-> [i \in 1..Len(kept) |->
                             IF i \in failed THEN ZeroRow
                             ELSE Embedding(kept[i], "gemini")]]
        ELSE [raised |-> delta # 0,
              rows   |-> [i \in 1..Len(kept) |-> Embedding(kept[i], "local")]]

\* The rows each entry point builds from its chunks and the vectors; zip
\* stops at the shorter of the two.
build_rows(ent, pairs, vectors) ==
    [i \in 1..Min(Len(pairs), Len(vectors)) |->
        [chunk_index |-> IF ent = "reembed_user" THEN Missing ELSE i - 1,
         page        |-> pairs[i][1],
         text        |-> pairs[i][2],
         embedding   |-> vectors[i]]]

\* rows[start:min(start + BATCH, len(rows))], as a set of rows
batch_of(rows, start) ==
    {rows[i] : i \in (start + 1)..Min(start + Batch, Len(rows))}

\* upsert(batch, on_conflict="doc_id,chunk_index")
upsert(table, batch) ==
    {r \in table : \A b \in batch : b.chunk_index # r.chunk_index} \cup batch

\* The chunks rows a document has before reembed_user runs: those an earlier
\* ingest_file wrote, with the vectors of an earlier model.  The other entry
\* points ingest a new document.
old_chunks(ent, pages) ==
    IF ent = "reembed_user"
    THEN LET pairs == ingest_chunks(pages)
         IN  {[chunk_index |-> i - 1, page |-> pairs[i][1], text |-> pairs[i][2],
               embedding |-> Embedding(pairs[i][2], "old")] : i \in 1..Len(pairs)}
    ELSE {}

\* The calls of the rollback of ingest_file.
Cleanup == {"documents.delete", "delete_paths"}

\* Pages of up to MaxPageLen characters.
PageTexts == SeqsUpTo({"a", "b"}, MaxPageLen)

\* ingest_file on every small file, the collaborators working; or every
\* entry point on a few files, the collaborators failing in every way.
IngestInit ==
    /\ \/ /\ entry = "ingest_file"
          /\ is_pdf \in BOOLEAN
          /\ file_pages \in IF is_pdf
                            THEN SeqsUpTo(PageTexts, MaxPages) \ {<<>>}
                            ELSE [1..1 -> PageTexts]
          /\ provider = "gemini"
          /\ encode_delta = 0
          /\ failed_calls = {}
          /\ upsert_error = "none"
          /\ early_error = "none"
          /\ cleanup_errors = {}
       \/ /\ entry \in {"ingest_file", "process_document_job", "reembed_user"}
          /\ is_pdf \in BOOLEAN
          /\ file_pages \in {<<<<"a", "a", "b">>>>, <<<<"a", " ", "a">>>>,
                             <<<<"a", "\n", "NUL">>>>, <<<<" ", "NUL">>>>}
          /\ provider \in {"gemini", "local"}
          /\ encode_delta \in {-1, 0, 1}
          /\ failed_calls \in SUBSET (1..2)
          /\ upsert_error \in {"none", "42P10", "other"}
          /\ early_error = "none"
          /\ cleanup_errors = {}
       \/ /\ entry = "ingest_file"
          /\ is_pdf \in BOOLEAN
          /\ file_pages \in {<<<<"a", "a", "b">>>>, <<<<" ", "NUL">>>>}
          /\ provider = "local"
          /\ encode_delta \in {0, 1}
          /\ failed_calls = {}
          /\ upsert_error \in {"none", "42P10", "42P10_insert", "other"}
          /\ early_error \in {"none", "documents_insert"}
                                \cup (IF is_pdf THEN {"chunking"} ELSE {})
          /\ cleanup_errors \in SUBSET Cleanup
    /\ ing_pc = "start"
    /\ chunk_pairs = <<>>
    /\ chunk_rows = <<>>
    /\ batch_start = 0
    /\ embed_calls = 0
    /\ doc_status = IF entry = "ingest_file" THEN "absent" ELSE "stored"
    /\ stored_file = (entry # "ingest_file")
    /\ chunks_table = old_chunks(entry, file_pages)
    /\ result = ""
    /\ http_status = 0
    /\ search_sees = chunks_table
    /\ cleanup_calls = {}
    /\ AskIdle
    /\ MmrIdle
    /\ SplitIdle
    /\ EmbedIdle
    /\ KeysIdle
    /\ IndexIdle

\* The entry point ends with an error and ingest_file leaves the documents
\* row and the stored file as they are.
FailedNoRollback ==
    /\ ing_pc' = "done"
    /\ result' = "error"
    /\ cleanup_calls' = cleanup_calls
    /\ doc_status' = IF entry = "process_document_job" THEN "error" ELSE doc_status
    /\ stored_file' = stored_file
    /\ http_status' = IF entry = "ingest_file" THEN 500 ELSE 0

\* The entry point ends with an error.  ingest_file deletes the documents
\* row and the stored file and raises, and upload_document answers 500;
\* process_document_job marks the document; reembed_user reports the error.
Failed ==
    /\ ing_pc' = "done"
    /\ result' = "error"
    /\ cleanup_calls' = IF entry = "ingest_file" THEN Cleanup ELSE cleanup_calls
    /\ doc_status' = CASE entry = "ingest_file" ->
                              IF "documents.delete" \in cleanup_errors
                              THEN "stored"
                              ELSE "absent"
                       [] entry = "process_document_job" -> "error"
                       [] OTHER                          -> doc_status
    /\ stored_file' = IF entry = "ingest_file"
                      THEN "delete_paths" \in cleanup_errors
                      ELSE stored_file
    /\ http_status' = IF entry = "ingest_file" THEN 500 ELSE 0

\* The entry point ends well; upload_document answers 200.
Succeeded ==
    /\ ing_pc' = "done"
    /\ result' = "ok"
    /\ doc_status' = IF entry = "process_document_job" THEN "ready" ELSE doc_status
    /\ stored_file' = stored_file
    /\ cleanup_calls' = cleanup_calls
    /\ http_status' = IF entry = "ingest_file" THEN 200 ELSE 0

\* Up to the chunking.  ingest_file stores the file, inserts the documents
\* row (when that raises it deletes the file and raises), chunks (when that
\* raises it rolls back) and raises when there are no chunks;
\* process_document_job marks the document as processing and, without
\* chunks, as ready (a PDF after the visual ingestion); reembed_user
\* downloads the file.
Chunking ==
    /\ ing_pc = "start"
    /\ chunk_pairs' = IF entry = "reembed_user"
                      THEN chunk_by_mime(file_pages)
                      ELSE IF entry = "ingest_file" /\ early_error # "none"
                      THEN <<>>
                      ELSE ingest_chunks(file_pages)
    /\ IF entry = "ingest_file" /\ early_error = "documents_insert"
       THEN /\ ing_pc' = "done"
            /\ result' = "error"
            /\ cleanup_calls' = {"delete_paths"}
            /\ doc_status' = "absent"
            /\ stored_file' = ("delete_paths" \in cleanup_errors)
            /\ http_status' = 500
       ELSE IF chunk_pairs' = <<>> /\ entry = "ingest_file"
       THEN Failed
       ELSE IF chunk_pairs' = <<>> /\ entry = "process_document_job"
       THEN Succeeded
       ELSE /\ ing_pc' = "chunked"
            /\ doc_status' = CASE entry = "ingest_file"          -> "stored"
                               [] entry = "process_document_job" -> "processing"
                               [] OTHER                          -> doc_status
            /\ stored_file' = TRUE
            /\ UNCHANGED <<result, http_status, cleanup_calls>>
    /\ UNCHANGED <<ask_vars, mmr_vars, split_vars, embed_vars, key_vars, index_vars, ingest_inputs, chunk_rows, batch_start,
                   embed_calls, chunks_table, search_sees>>

\* vectors = embed_texts(texts), the count check of ingest_file, the rows.
Embed ==
    /\ ing_pc = "chunked"
    /\ embed_calls' = embed_calls + 1
    /\ LET texts   == [i \in 1..Len(chunk_pairs) |-> chunk_pairs[i][2]]
           vectors == embed_rows(texts, provider, failed_calls, encode_delta)
       IN  IF vectors.raised
              \/ (entry = "ingest_file" /\ Len(vectors.rows) # Len(texts))
           THEN Failed /\ chunk_rows' = chunk_rows
           ELSE /\ chunk_rows' = build_rows(entry, chunk_pairs, vectors.rows)
                /\ ing_pc' = "embedded"
                /\ UNCHANGED <<doc_status, stored_file, result, http_status, cleanup_calls>>
    /\ UNCHANGED <<ask_vars, mmr_vars, split_vars, embed_vars, key_vars, index_vars, ingest_inputs, chunk_pairs, batch_start,
                   chunks_table, search_sees>>

\* One batch of the upsert loop of ingest_file, or what its failure leads
\* to: the fallback for 42P10, the rollback otherwise.
UpsertBatch ==
    /\ ing_pc = "embedded"
    /\ entry = "ingest_file"
    /\ CASE upsert_error = "none" ->
                /\ chunks_table' = upsert(chunks_table, batch_of(chunk_rows, batch_start))
                /\ batch_start' = batch_start + Batch
                /\ IF batch_start' >= Len(chunk_rows)
                   THEN Succeeded
                   ELSE UNCHANGED <<ing_pc, doc_status, stored_file, result, http_status, cleanup_calls>>
         [] upsert_error \in {"42P10", "42P10_insert"} ->
                /\ ing_pc' = "fallback"
                /\ UNCHANGED <<chunks_table, batch_start, doc_status, stored_file,
                               result, http_status, cleanup_calls>>
         [] OTHER ->
                /\ Failed
                /\ UNCHANGED <<chunks_table, batch_start>>
    /\ UNCHANGED <<ask_vars, mmr_vars, split_vars, embed_vars, key_vars, index_vars, ingest_inputs, chunk_pairs, chunk_rows,
                   embed_calls, search_sees>>

\* supa.table("chunks").delete().eq("doc_id", doc_id), in the fallback of
\* ingest_file and in reembed_user, which ends here when it has no texts.
DeleteChunks ==
    /\ \/ ing_pc = "fallback"
       \/ ing_pc = "embedded" /\ entry = "reembed_user"
    /\ chunks_table' = {}
    /\ batch_start' = 0
    /\ IF chunk_pairs = <<>>
       THEN Succeeded
       ELSE /\ ing_pc' = "deleted"
            /\ UNCHANGED <<doc_status, stored_file, result, http_status, cleanup_calls>>
    /\ UNCHANGED <<ask_vars, mmr_vars, split_vars, embed_vars, key_vars, index_vars, ingest_inputs, chunk_pairs, chunk_rows,
                   embed_calls, search_sees>>

\* supa.table("chunks").insert(...): one batch of the fallback of
\* ingest_file, all the rows in reembed_user.
InsertChunks ==
    /\ ing_pc = "deleted"
    /\ IF entry = "ingest_file" /\ upsert_error = "42P10_insert"
       THEN /\ Failed
            /\ UNCHANGED <<chunks_table, batch_start>>
       ELSE /\ IF entry = "reembed_user"
               THEN /\ chunks_table' = chunks_table \cup batch_of(chunk_rows, 0)
                    /\ batch_start' = Len(chunk_rows)
               ELSE /\ chunks_table' = chunks_table \cup batch_of(chunk_rows, batch_start)
                    /\ batch_start' = batch_start + Batch
            /\ IF batch_start' >= Len(chunk_rows)
               THEN Succeeded
               ELSE UNCHANGED <<ing_pc, doc_status, stored_file, result, http_status,
                                cleanup_calls>>
    /\ UNCHANGED <<ask_vars, mmr_vars, split_vars, embed_vars, key_vars, index_vars, ingest_inputs, chunk_pairs, chunk_rows,
                   embed_calls, search_sees>>

\* supa.table('chunks').upsert(chunk_records) of process_document_job
WorkerUpsert ==
    /\ ing_pc = "embedded"
    /\ entry = "process_document_job"
    /\ chunks_table' = upsert(chunks_table, batch_of(chunk_rows, 0))
    /\ Succeeded
    /\ UNCHANGED <<ask_vars, mmr_vars, split_vars, embed_vars, key_vars, index_vars, ingest_inputs, chunk_pairs, chunk_rows,
                   batch_start, embed_calls, search_sees>>

\* A search of another request reads the chunks rows of the document.
ConcurrentSearch ==
    /\ search_sees' = chunks_table
    /\ UNCHANGED <<ask_vars, mmr_vars, split_vars, embed_vars, key_vars, index_vars, ingest_inputs, ing_pc, chunk_pairs, chunk_rows,
                   batch_start, embed_calls, doc_status, stored_file, chunks_table,
                   result, http_status, cleanup_calls>>

IngestNext ==
    \/ Chunking
    \/ Embed
    \/ UpsertBatch
    \/ DeleteChunks
    \/ InsertChunks
    \/ WorkerUpsert
    \/ ConcurrentSearch

IngestSpec == IngestInit /\ [][IngestNext]_vars

(* ------------------- embed_texts and its thread pool -------------------- *)

MaxTexts == 3

\* ThreadPoolExecutor(max_workers=min(10, len(texts)))
MaxWorkers == 10

\* texts = [t.strip() for t in texts if (t or "").strip()]
kept_texts(texts) ==
    SelectSeq([i \in 1..Len(texts) |-> Strip(texts[i])], LAMBDA t : t # <<>>)

\* Faulty variant of sort_results: the order of completion is kept.
sort_results_not(results) == results

\* results.sort(key=lambda x: x[0])
sort_results(results) ==
    StableSort(results, [i \in 1..Len(results) |-> <<results[i][1], 0>>])

\* Every list of up to MaxTexts texts, some blank, completing in any order;
\* or one text more than there can be worker threads, the threads taking up
\* calls before any call completes and the running calls completing oldest
\* first or newest first.
EmbedInit ==
    /\ \/ /\ et_texts \in SeqsUpTo({<<"a">>, <<" ", "b">>, <<" ">>}, MaxTexts)
          /\ et_failing \in SUBSET (1..Len(kept_texts(et_texts)))
          /\ et_order = "any"
       \/ /\ et_texts = [i \in 1..(MaxWorkers + 1) |-> <<"a">>]
          /\ et_failing \in {{}, {1, MaxWorkers + 1}}
          /\ et_order \in {"first", "last"}
    /\ et_started = 0
    /\ et_running = {}
    /\ et_results = <<>>
    /\ et_returned = FALSE
    /\ et_rows = <<>>
    /\ AskIdle
    /\ MmrIdle
    /\ SplitIdle
    /\ IngestIdle
    /\ KeysIdle
    /\ IndexIdle

\* A worker thread takes up the next submitted call; calls are numbered
\* from 1 in the order of the kept texts.
StartCall ==
    /\ ~et_returned
    /\ et_started < Len(kept_texts(et_texts))
    /\ Cardinality(et_running) < Min(MaxWorkers, Len(kept_texts(et_texts)))
    /\ et_started' = et_started + 1
    /\ et_running' = et_running \cup {et_started + 1}
    /\ UNCHANGED <<ask_vars, mmr_vars, split_vars, ingest_vars, key_vars, index_vars, et_texts, et_failing, et_order, et_results,
                   et_returned, et_rows>>

\* embed_single(text, idx) returns and as_completed hands its result on.
FinishCall ==
    /\ et_order # "any" =>
           \/ et_started = Len(kept_texts(et_texts))
           \/ Cardinality(et_running) = MaxWorkers
    /\ \E idx \in et_running :
           /\ et_order = "first" => \A j \in et_running : idx <= j
           /\ et_order = "last" => \A j \in et_running : idx >= j
           /\ et_running' = et_running \ {idx}
           /\ et_results' = Append(et_results,
                  <<idx, IF idx \in et_failing
                         THEN ZeroRow
                         ELSE Embedding(kept_texts(et_texts)[idx], "gemini")>>)
    /\ UNCHANGED <<ask_vars, mmr_vars, split_vars, ingest_vars, key_vars, index_vars, et_texts, et_failing, et_order, et_started,
                   et_returned, et_rows>>

\* All calls are done: the results are sorted and the rows returned.
\* _l2_normalize keeps the direction of a row and the zero row.
ReturnRows ==
    /\ ~et_returned
    /\ Len(et_results) = Len(kept_texts(et_texts))
    /\ et_rows' = LET sorted == sort_results(et_results)
                  IN  [i \in 1..Len(sorted) |-> sorted[i][2]]
    /\ et_returned' = TRUE
    /\ UNCHANGED <<ask_vars, mmr_vars, split_vars, ingest_vars, key_vars, index_vars, et_texts, et_failing, et_order, et_started,
                   et_running, et_results>>

EmbedNext == StartCall \/ FinishCall \/ ReturnRows

EmbedSpec == EmbedInit /\ [][EmbedNext]_vars

(* ------------- the generation calls of concurrent requests -------------- *)

MaxKeys == 3

\* The requests being handled at the same time, each in its own thread.
Requests == 1..2

\* Some keys have used up their quota; the index is where earlier requests
\* left it.
KeysInit ==
    /\ api_keys \in 1..MaxKeys
    /\ key_exhausted \in SUBSET (0..(api_keys - 1))
    /\ current_key_index \in 0..(api_keys - 1)
    /\ ask_pc = [r \in Requests |-> "ready"]
    /\ ask_attempt = [r \in Requests |-> 0]
    /\ ask_key = [r \in Requests |-> 0]
    /\ ask_outcome = [r \in Requests |-> ""]
    /\ AskIdle
    /\ MmrIdle
    /\ SplitIdle
    /\ IngestIdle
    /\ EmbedIdle
    /\ IndexIdle

\* current_key = API_KEYS[_current_key_index]; genai.configure(...)
BeginAttempt(r) ==
    /\ ask_pc[r] = "ready"
    /\ ask_key' = [ask_key EXCEPT ![r] = current_key_index]
    /\ ask_pc' = [ask_pc EXCEPT ![r] = "calling"]
    /\ UNCHANGED <<ask_vars, mmr_vars, split_vars, ingest_vars, embed_vars, index_vars, api_keys, key_exhausted, current_key_index,
                   ask_attempt, ask_outcome>>

\* model.generate_content(...) answers, or raises a quota error: then the
\* index moves to the next key and the loop goes on, until it has made
\* len(API_KEYS) attempts and ask raises.
CallReturns(r) ==
    /\ ask_pc[r] = "calling"
    /\ IF ask_key[r] \notin key_exhausted
       THEN /\ ask_outcome' = [ask_outcome EXCEPT ![r] = "answered"]
            /\ ask_pc' = [ask_pc EXCEPT ![r] = "done"]
            /\ UNCHANGED <<current_key_index, ask_attempt>>
       ELSE /\ current_key_index' = (current_key_index + 1) % api_keys
            /\ ask_attempt' = [ask_attempt EXCEPT ![r] = @ + 1]
            /\ IF ask_attempt'[r] = api_keys
               THEN /\ ask_outcome' = [ask_outcome EXCEPT ![r] = "failed"]
                    /\ ask_pc' = [ask_pc EXCEPT ![r] = "done"]
               ELSE /\ ask_pc' = [ask_pc EXCEPT ![r] = "ready"]
                    /\ UNCHANGED ask_outcome
    /\ UNCHANGED <<ask_vars, mmr_vars, split_vars, ingest_vars, embed_vars, index_vars, api_keys, key_exhausted, ask_key>>

KeysNext == \E r \in Requests : BeginAttempt(r) \/ CallReturns(r)

KeysSpec == KeysInit /\ [][KeysNext]_vars

(* ------------------------------ VectorIndex ----------------------------- *)

MaxAdds == 3

\* diversity of VectorIndex.search, in quarters
Diversity == 3

\* The documents an index is built from: the vectors of their chunks.
Documents ==
    { <<>>,
      << <<5, 0>> >>,
      << <<4, 3>>, <<5, 0>> >>,
      << <<0, 5>>, <<3, 4>>, <<4, 3>> >> }

\* pool = min(max(k * 5, k), self.ntotal)
index_pool(kk, ntotal) == Min(Max(kk * 5, kk), ntotal)

\* self.index.search(q_faiss, pool): the ids (from 0) of the pool rows with
\* the largest inner product, largest first; rows with equal products come
\* with the lower or with the higher id first.
index_candidates(vectors, qv, pool, low_first) ==
    LET ids == [i \in 1..Len(vectors) |-> i - 1]
    IN  Take(StableSort(ids, [i \in 1..Len(vectors) |->
                                 <<0 - Dot(qv, vectors[i]),
                                   IF low_first THEN i ELSE 0 - i>>]),
             pool)

\* The MMR loop of VectorIndex.search over the positions of cand_ids: the
\* position with the largest diversity * r - (1 - diversity) * red, the
\* first of them when several have it, until min(k, len(cand_ids)) are
\* selected.
RECURSIVE index_mmr(_, _, _, _)
index_mmr(cand_vecs, rel, selected_pos, limit) ==
    IF Len(selected_pos) >= limit
    THEN selected_pos
    ELSE LET chosen == {selected_pos[s] : s \in 1..Len(selected_pos)}
             left   == (1..Len(cand_vecs)) \ chosen
             red(j) == CHOOSE m \in {Dot(cand_vecs[j], cand_vecs[s]) : s \in chosen} :
                           \A s \in chosen : Dot(cand_vecs[j], cand_vecs[s]) <= m
             mmr(j) == Diversity * rel[j] - (4 - Diversity) * red(j)
             best_j == CHOOSE j \in left :
                           \A j2 \in left : mmr(j) > mmr(j2) \/ (mmr(j) = mmr(j2) /\ j <= j2)
         IN  index_mmr(cand_vecs, rel, Append(selected_pos, best_j), limit)

\* " ... ".join(self.chunks[max(0, idx - 1):min(len(self.chunks), idx + 2)])
RECURSIVE JoinWindow(_)
JoinWindow(texts) ==
    IF Len(texts) <= 1
    THEN texts
    ELSE <<Head(texts), " ... ">> \o JoinWindow(Tail(texts))

index_window(chunks, idx) ==
    JoinWindow(SubSeq(chunks, Max(0, idx - 1) + 1, Min(Len(chunks), idx + 2)))

\* VectorIndex(dim)
IndexInit ==
    /\ IndexIdle
    /\ AskIdle
    /\ MmrIdle
    /\ SplitIdle
    /\ IngestIdle
    /\ EmbedIdle
    /\ KeysIdle

\* add(vectors, chunks) with the chunks of one more document; the text of
\* a chunk is written as the document and the position it comes from.
IndexAdd ==
    /\ ~ix_searched
    /\ ix_adds < MaxAdds
    /\ \E doc \in Documents :
           /\ ix_vectors' = ix_vectors \o doc
           /\ ix_chunks' = ix_chunks \o [i \in 1..Len(doc) |-> [doc |-> ix_adds + 1, ord |-> i]]
    /\ ix_adds' = ix_adds + 1
    /\ UNCHANGED <<ask_vars, mmr_vars, split_vars, ingest_vars, embed_vars, key_vars,
                   ix_searched, ix_pool, ix_selected, ix_results>>

\* search(query_vector, k)
IndexSearch ==
    /\ ~ix_searched
    /\ ix_searched' = TRUE
    /\ \E kk \in 1..MaxK, qv \in {<<5, 0>>, <<3, 4>>}, low_first \in BOOLEAN :
           IF Len(ix_vectors) = 0
           THEN UNCHANGED <<ix_pool, ix_selected, ix_results>>
           ELSE LET pool      == index_pool(kk, Len(ix_vectors))
                    cand_ids  == index_candidates(ix_vectors, qv, pool, low_first)
                    cand_vecs == [j \in 1..Len(cand_ids) |-> ix_vectors[cand_ids[j] + 1]]
                    rel       == [j \in 1..Len(cand_ids) |-> Dot(qv, cand_vecs[j])]
                    seed      == CHOOSE j \in 1..Len(cand_ids) :
                                     /\ \A j2 \in 1..Len(cand_ids) : rel[j2] <= rel[j]
                                     /\ \A j2 \in 1..(j - 1) : rel[j2] < rel[j]
                    positions == index_mmr(cand_vecs, rel, <<seed>>,
                                           Min(kk, Len(cand_ids)))
                IN  /\ ix_pool' = pool
                    /\ ix_selected' = [s \in 1..Len(positions) |-> cand_ids[positions[s]]]
                    /\ ix_results' = [s \in 1..Len(positions) |->
                                         index_window(ix_chunks, ix_selected'[s])]
    /\ UNCHANGED <<ask_vars, mmr_vars, split_vars, ingest_vars, embed_vars, key_vars,
                   ix_vectors, ix_chunks, ix_adds>>

IndexSpec == IndexInit /\ [][IndexAdd \/ IndexSearch]_vars

(* ------------------------------ properties ----------------------------- *)

\* The filter has run.
Filtered == pc \in {"filtered", "reranked"} \/ (pc = "done" /\ status = 200)

\* The rerank has run.
Reranked == pc = "reranked" \/ (pc = "done" /\ status = 200)

\* The handler has returned its result.
Responded == pc = "done" /\ status = 200

Ids(seq) == [i \in 1..Len(seq) |-> seq[i].id]

IdSet(seq) == {seq[i].id : i \in 1..Len(seq)}

\* The least element of a non-empty set of integers.
Least(S) == CHOOSE m \in S : \A x \in S : m <= x

\* The least distance over all the hits the search returned.
LeastHitDistance == Least({HitDistance(hits[i]) : i \in 1..Len(hits)})

\* The lexical overlap score of a snippet for this request's question.
Lex(sn) == lexical_score(sn, tokenize(Chars(q)))

\* C1: the first pass keeps a hit iff its distance <= max_distance with
\* max_distance = 2 * (1 - similarity_threshold), in the order of the hits.
C1_FirstPassInclusive ==
    Filtered =>
        /\ max_distance = 2 * (100 - similarity_threshold)
        /\ Ids(candidate_snippets)
             = Ids(SelectSeq(hits, LAMBDA h :
                     HitDistance(h) <= 2 * (100 - similarity_threshold)))

\* With similarity_threshold 0.60 a hit at exactly 0.80 is kept and a hit
\* at 0.81 is dropped.
C1_Witness ==
    /\ pc = "filtered"
    /\ similarity_threshold = 60
    /\ \E i \in 1..Len(hits) :
          hits[i].distance = 80 /\ hits[i].id \in IdSet(candidate_snippets)
    /\ \E i \in 1..Len(hits) :
          hits[i].distance = 81 /\ hits[i].id \notin IdSet(candidate_snippets)

\* The secondary cutoff was applied.
SecondaryApplied == Filtered /\ Len(candidate_snippets) > SecondaryTrigger

\* C2 as stated: when the secondary cutoff is applied, the number of
\* survivors after it is never less than min(k, survivors before it).
C2_FloorOfK ==
    SecondaryApplied =>
        Len(thresholded) >= Min(k, Len(candidate_snippets))

\* C2 amended: the secondary cutoff runs only with more than 20 survivors
\* of the first pass; it keeps, in order, exactly the survivors within 0.25
\* of the least distance, so at least one survivor always remains.
C2_KeepsWithinMargin ==
    /\ SecondaryApplied =>
          /\ Len(thresholded) >= 1
          /\ Ids(thresholded)
               = Ids(SelectSeq(candidate_snippets, LAMBDA sn :
                       sn.distance <= LeastHitDistance + 25))
    /\ (Filtered /\ ~SecondaryApplied) => thresholded = candidate_snippets

\* The secondary cutoff left fewer than min(k, survivors before it).
C2_Witness ==
    /\ SecondaryApplied
    /\ Len(thresholded) < Min(k, Len(candidate_snippets))
    /\ Len(thresholded) >= 1

C4ClaimedMode(answer, min_dist) ==
    IF HasSegment(answer, "couldn't find") /\ HasSegment(answer, "notes")
    THEN "model_only"
    ELSE IF min_dist > RelevanceCutoff
         THEN "model_only"
         ELSE IF HasSegment(answer, MARKER) THEN "mixed" ELSE "notes_only"

\* C4 as stated: the mode is decided by the four rules and nothing else; a
\* min_distance equal to the cutoff does not give model_only.
C4_FourRules ==
    Responded =>
        answer_mode = C4ClaimedMode(gen_answer, EffectiveMinDistance(min_distance))

\* A greeting phrase lies wholly inside the first 50 characters.
C4Greeting ==
    \E i \in 1..Len(gen_answer) :
        /\ gen_answer[i] = "Hello"
        /\ TextLen(SubSeq(gen_answer, 1, i - 1)) + 5 <= 50

\* C4 amended: the mode is model_only when min_distance >= 0.75, or the
\* answer has a not-found phrasing, or a greeting within its first 50
\* characters; otherwise mixed when the answer contains the marker;
\* otherwise notes_only.
C4_ModeRules ==
    Responded =>
        LET d        == EffectiveMinDistance(min_distance)
            notfound == HasSegment(gen_answer, "couldn't find")
                          /\ HasSegment(gen_answer, "notes")
            model    == d >= 75 \/ notfound \/ C4Greeting
        IN  /\ model => answer_mode = "model_only"
            /\ (~model /\ HasSegment(gen_answer, MARKER)) => answer_mode = "mixed"
            /\ (~model /\ ~HasSegment(gen_answer, MARKER)) => answer_mode = "notes_only"

\* min_distance equal to the cutoff alone gives model_only.
C4_Witness ==
    /\ Responded
    /\ EffectiveMinDistance(min_distance) = 75
    /\ gen_answer = <<"Paris.", MARKER, "Paris.">>
    /\ answer_mode = "model_only"

\* C5: mode mixed is never reported with an empty enrichment_part.
C5_MixedHasEnrichment ==
    (Responded /\ answer_mode = "mixed") => enrichment_part # <<>>

\* C6: model_only cites nothing; notes_only and mixed cite what the
\* generation collaborator declared, and otherwise the first k entries of
\* the final selection.
C6_Citations ==
    Responded =>
        /\ answer_mode = "model_only" => citations = <<>>
        /\ (answer_mode \in {"notes_only", "mixed"} /\ gen_citations # <<>>)
              => citations = gen_citations
        /\ (answer_mode \in {"notes_only", "mixed"} /\ gen_citations = <<>>)
              => /\ Len(citations) = Min(k, Len(snippets))
                 /\ \A i \in 1..Len(citations) : citations[i] = snippets[i]

\* The selection is longer than k and only its first k entries are cited.
C6_Witness ==
    /\ Responded
    /\ answer_mode = "notes_only"
    /\ gen_citations = <<>>
    /\ Len(snippets) > k
    /\ Len(citations) = k

\* C7: the min_distance handed to the classification is the least distance
\* over all hits of the search, dropped ones included, and 1.0 without hits.
C7_MinOverAllHits ==
    Filtered =>
        /\ EffectiveMinDistance(min_distance)
             = IF hits = <<>> THEN 100 ELSE LeastHitDistance
        /\ (Responded /\ gen_answer = PlainAnswer)
              => (answer_mode = "model_only"
                    <=> (hits = <<>> \/ LeastHitDistance >= RelevanceCutoff))

\* Every hit was dropped, and the least distance is that of a dropped hit.
C7_Witness ==
    /\ Responded
    /\ hits # <<>>
    /\ candidate_snippets = <<>>
    /\ min_distance = 35
    /\ answer_mode = "notes_only"

\* C8: with an empty corpus nothing fails in retrieval, filter or rerank,
\* and the request ends with selection [], mode model_only, citations [].
C8_EmptyCorpus ==
    rpc_data = <<>> =>
        /\ status = 500 => (search_outcome = "error" \/ gen_raises)
        /\ hits = <<>>
        /\ Reranked => snippets = <<>>
        /\ Responded => answer_mode = "model_only" /\ citations = <<>>

\* Empty corpus, an answer with the marker and declared citations.
C8_Witness ==
    /\ Responded
    /\ rpc_data = <<>>
    /\ HasSegment(gen_answer, MARKER)
    /\ gen_citations # <<>>

\* Scenario A: A at distance 0.10, B at distance 1.40.
ScenarioA ==
    WithIds(<<Row(10, PlainChunk),
              Row(140, [text |-> "Unrelated biology note", filename |-> ""])>>)

\* The ids of the hits within max_distance.
WithinMaxDistance ==
    {hits[i].id : i \in {j \in 1..Len(hits) :
        HitDistance(hits[j]) <= 2 * (100 - similarity_threshold)}}

\* C9: no hit beyond max_distance is in the selection or in the citations
\* taken from it; scenario A gives selection [A], notes_only, citations [A].
C9_NoDroppedHitSelected ==
    /\ Reranked => IdSet(snippets) \subseteq WithinMaxDistance
    /\ (Responded /\ gen_citations = <<>>) => IdSet(citations) \subseteq WithinMaxDistance
    /\ (Responded /\ rpc_data = ScenarioA /\ k = 1 /\ similarity_threshold = 60
          /\ gen_answer = PlainAnswer /\ gen_citations = <<>>)
          => /\ Ids(snippets) = <<1>>
             /\ answer_mode = "notes_only"
             /\ Ids(citations) = <<1>>

\* Scenario A has run to its result.
C9_Witness ==
    /\ Responded
    /\ rpc_data = ScenarioA
    /\ k = 1
    /\ Ids(citations) = <<1>>

\* The position of the snippet with this id among the thresholded snippets.
PositionOf(id) == CHOOSE i \in 1..Len(thresholded) : thresholded[i].id = id

\* snippets is seq ordered by descending lexical score, ties in the order
\* of the thresholded snippets.
OrderedByLex(seq) ==
    \A i, j \in 1..Len(seq) :
        i < j => \/ Lex(seq[i]) > Lex(seq[j])
                 \/ /\ Lex(seq[i]) = Lex(seq[j])
                    /\ PositionOf(seq[i].id) < PositionOf(seq[j].id)

\* The n thresholded snippets with the largest lexical scores (ties to the
\* earlier), by descending lexical score.
C10TopByLex(n) ==
    LET better(a, b) == Lex(thresholded[a]) > Lex(thresholded[b])
                          \/ (Lex(thresholded[a]) = Lex(thresholded[b]) /\ a < b)
        rank(a)      == Cardinality({b \in 1..Len(thresholded) : better(b, a)}) + 1
    IN  {thresholded[a].id : a \in {b \in 1..Len(thresholded) : rank(b) <= n}}

MmrRows == [p \in 1..Len(m_selected) |-> m_selected[p][1]]

\* sims of the call: the relevance of row i to the query.
MmrSims(i) == Dot(m_doc_vecs[i], m_query_vec)

\* The rows selected before position p, and those still remaining there.
PickedBefore(p) == {MmrRows[r] : r \in 1..(p - 1)}

RemainingAt(p) == (1..Len(m_doc_vecs)) \ PickedBefore(p)

\* The largest similarity of row i to a row of the set picked.
MaxSimTo(i, picked) ==
    LET sim == {Dot(m_doc_vecs[i], m_doc_vecs[j]) : j \in picked}
    IN  CHOOSE m \in sim : \A x \in sim : m >= x

\* Row i comes before row j in plain relevance ranking.
RanksBefore(i, j) ==
    \/ MmrSims(i) > MmrSims(j)
    \/ MmrSims(i) = MmrSims(j) /\ i <= j

\* C11: with lambda = 1 the call returns the first min(limit, n) rows of
\* the ranking by descending relevance to the query, ties by lowest index,
\* whatever the similarities among the rows are.
C11_LambdaOneIsRelevanceRanking ==
    (m_returned /\ m_lambda = 10) =>
        /\ Len(m_selected) = Min(Max(m_limit, 0), Len(m_doc_vecs))
        /\ \A p \in 1..Len(m_selected) :
               \A j \in RemainingAt(p) : RanksBefore(MmrRows[p], j)

\* A call with lambda = 1 whose result differs from the one the default
\* weights give, because two rows are near-duplicates.
C11_Witness ==
    /\ m_returned
    /\ m_lambda = 10
    /\ Len(m_selected) >= 2
    /\ m_selected[2][1] #
           mmr_select(m_query_vec, m_doc_vecs, m_limit, DefaultLambda)[2][1]

\* C12: with lambda = 0 every pick after the seed is a remaining row whose
\* largest similarity to the rows already picked is the least among the
\* remaining rows, whatever its relevance.
C12_LambdaZeroMinimizesRedundancy ==
    (m_returned /\ m_lambda = 0) =>
        \A p \in 2..Len(m_selected) :
            /\ MmrRows[p] \in RemainingAt(p)
            /\ \A j \in RemainingAt(p) :
                   MaxSimTo(MmrRows[p], PickedBefore(p)) <= MaxSimTo(j, PickedBefore(p))

\* A call with lambda = 0 whose third pick passes over a more relevant row
\* that is more similar to the two rows already picked.
C12_Witness ==
    /\ m_returned
    /\ m_lambda = 0
    /\ Len(m_selected) >= 3
    /\ \E j \in RemainingAt(3) :
           /\ MmrSims(j) > MmrSims(MmrRows[3])
           /\ MaxSimTo(j, PickedBefore(3)) > MaxSimTo(MmrRows[3], PickedBefore(3))

(* ---------------------- claims about the split ------------------------- *)

\* Runs of blank segments, as long as an answer can be.
Blanks == SeqsUpTo({" "}, MaxAnswerLen)

\* The text neither starts nor ends with a blank.
Trimmed(segs) == segs = <<>> \/ (Head(segs) # " " /\ segs[Len(segs)] # " ")

\* C13: in mixed mode the generated answer is notes_part, the marker and
\* enrichment_part in this order, with nothing but blanks before, between
\* and after them; both parts are trimmed and notes_part holds no marker.
C13_SplitReconstructs ==
    (Responded /\ answer_mode = "mixed") =>
        /\ Trimmed(notes_part)
        /\ Trimmed(enrichment_part)
        /\ ~HasSegment(notes_part, MARKER)
        /\ \E a, b, c, d \in Blanks :
               gen_answer = a \o notes_part \o b \o <<MARKER>> \o c
                              \o enrichment_part \o d

\* A mixed answer with a blank next to the marker and text after it.
C13_Witness ==
    /\ Responded
    /\ answer_mode = "mixed"
    /\ enrichment_part # <<>>
    /\ gen_answer # notes_part \o <<MARKER>> \o enrichment_part

(* ------------------------ claims about split_text ----------------------- *)

\* Where window i starts in the normalized text, counting from 0.
WindowStart(i) == (i - 1) * (st_max_chars - st_overlap)

\* C15: for 0 <= overlap < max_chars the windows cover the normalized text:
\* window i starts overlap characters before the end of window i - 1 and the
\* first at 0, every window but the last has max_chars characters, the last
\* has 1..max_chars and ends where the text ends; an empty text has none.
C15_WindowsCoverText ==
    st_returned =>
        LET t == normalize(st_text)
            n == Len(st_chunks)
        IN  /\ (t = <<>>) = (n = 0)
            /\ \A i \in 1..n :
                   /\ st_chunks[i] =
                          SubSeq(t, WindowStart(i) + 1, WindowStart(i) + Len(st_chunks[i]))
                   /\ Len(st_chunks[i]) >= 1
                   /\ Len(st_chunks[i]) <= st_max_chars
                   /\ i < n => Len(st_chunks[i]) = st_max_chars
            /\ n > 0 => WindowStart(n) + Len(st_chunks[n]) = Len(t)

\* A text that normalization changes, split into overlapping windows the
\* last of which is shorter than max_chars.
C15_Witness ==
    /\ st_returned
    /\ Len(st_chunks) >= 2
    /\ st_overlap >= 1
    /\ Len(st_chunks[Len(st_chunks)]) < st_max_chars
    /\ normalize(st_text) # st_text

(* ------------------------ claims about ingestion ------------------------ *)

\* The pairs _collect_chunks is given by ingest_file.
InputPairs == pieces(file_pages, 1)

\* The first position of a text among the input pairs.
FirstAt(pairs, text) ==
    CHOOSE a \in 1..Len(pairs) :
        /\ pairs[a][2] = text
        /\ \A b \in 1..(a - 1) : pairs[b][2] # text

\* The rows the ingestion is writing.
NewChunks == {chunk_rows[i] : i \in 1..Len(chunk_rows)}

\* C14: the chunk list of ingest_file has no empty text and no two entries
\* with the same sanitized text; each entry is the first input pair with its
\* text, the entries follow the order of the input pairs, and the rows are
\* numbered 0..n-1 in this order and stored so.
C14_ChunkListIsDeduplicated ==
    (entry = "ingest_file" /\ ing_pc # "start") =>
        LET input == InputPairs
            first == [i \in 1..Len(chunk_pairs) |-> FirstAt(input, chunk_pairs[i][2])]
        IN  /\ \A i \in 1..Len(chunk_pairs) :
                   /\ chunk_pairs[i][2] # <<>>
                   /\ \E a \in 1..Len(input) : input[a][2] = chunk_pairs[i][2]
                   /\ chunk_pairs[i] = input[first[i]]
            /\ \A i, j \in 1..Len(chunk_pairs) :
                   i < j => /\ sanitize_text(chunk_pairs[i][2]) # sanitize_text(chunk_pairs[j][2])
                            /\ first[i] < first[j]
            /\ \A i \in 1..Len(chunk_rows) :
                   /\ chunk_rows[i].chunk_index = i - 1
                   /\ chunk_rows[i].page = chunk_pairs[i][1]
                   /\ chunk_rows[i].text = chunk_pairs[i][2]
            /\ result = "ok" => /\ Len(chunk_rows) = Len(chunk_pairs)
                                /\ chunks_table = NewChunks

\* An ingested PDF with two chunks, one of which occurs again on a later page.
C14_Witness ==
    /\ entry = "ingest_file"
    /\ result = "ok"
    /\ Len(chunk_pairs) >= 2
    /\ LET input == InputPairs
       IN  \E i \in 1..Len(chunk_pairs), a \in 1..Len(input) :
               /\ input[a][2] = chunk_pairs[i][2]
               /\ input[a][1] # chunk_pairs[i][1]

\* C16: a file without chunks is a normal outcome of ingest_file, not an
\* error, and the upload is not answered with a server error.
C16_NoChunksIsNormal ==
    (entry = "ingest_file" /\ ing_pc = "done" /\ chunk_pairs = <<>>) =>
        (result # "error" /\ http_status # 500)

\* The embedding step has run and the local model returned another number
\* of rows than there are chunk texts.
Mismatch ==
    /\ ing_pc \notin {"start", "chunked"}
    /\ chunk_pairs # <<>>
    /\ provider = "local"
    /\ encode_delta # 0

C19_SearchSeesOldOrNew ==
    \/ search_sees = old_chunks(entry, file_pages)
    \/ ing_pc \notin {"start", "chunked"} /\ search_sees = NewChunks

(* ------------------------ claims about embed_texts ---------------------- *)

OutcomeAlone ==
    IF \E key \in 0..(api_keys - 1) : key \notin key_exhausted
    THEN "answered"
    ELSE "failed"

\* C20: the outcome of a request is the same under every interleaving with
\* another request: the one it has when it runs alone.
C20_OutcomeIndependentOfInterleaving ==
    \A r \in DOMAIN ask_outcome : ask_outcome[r] \in {"", OutcomeAlone}

(* ----------------------- claims about the rollback ---------------------- *)

\* ingest_file has ended with an error after it stored the file.
IngestFailed == entry = "ingest_file" /\ ing_pc = "done" /\ result = "error"

\* ingest_file returns a result only when the chunks table holds its n
\* rows, numbered 0..n-1.
ReturnsOnlyWhenWritten ==
    (entry = "ingest_file" /\ result = "ok") =>
        /\ chunks_table = NewChunks
        /\ Len(chunk_rows) = Len(chunk_pairs)
        /\ {r.chunk_index : r \in chunks_table} = 0..(Len(chunk_pairs) - 1)

Clamp(x, lo, hi) == Max(lo, Min(x, hi))

\* C22: the number of rows ask_notes asks of the search is
\* clamp(max(5*k, k), 1, corpus_size).
C22_PoolIsFiveTimesK ==
    (pc \notin {"start", "done"} /\ rpc_data # <<>>) =>
        p_match_count = Clamp(Max(5 * k, k), 1, Len(rpc_data))

\* The chunks of the index next to a chunk in its own document: the one
\* before it, the chunk, the one after it.
OwnNeighbours(c) ==
    LET known == {ix_chunks[i] : i \in 1..Len(ix_chunks)}
        prev  == [doc |-> c.doc, ord |-> c.ord - 1]
        next  == [doc |-> c.doc, ord |-> c.ord + 1]
    IN  (IF prev \in known THEN <<prev>> ELSE <<>>) \o <<c>>
            \o (IF next \in known THEN <<next>> ELSE <<>>)

\* C23: every passage VectorIndex.search returns is the selected chunk
\* joined, with the separator, to the chunk before and the chunk after it in
\* its own document when they exist, and to no chunk of another document.
C23_WindowsStayInDocument ==
    \A s \in 1..Len(ix_results) :
        ix_results[s] = JoinWindow(OwnNeighbours(ix_chunks[ix_selected[s] + 1]))

(* -------------------- more claims about _mmr_select -------------------- *)

\* The score of row i when the rows picked are already selected, with
\* lambda in tenths.
ScoreAt(i, picked) ==
    m_lambda * MmrSims(i) - (10 - m_lambda) * MaxSimTo(i, picked)

\* C24: the call returns min(limit, n) pairwise distinct rows; the first
\* has the highest relevance, each later one has the highest score
\* lambda * rel - (1 - lambda) * (largest similarity to a selected row) among
\* the rows not yet selected, the lowest index winning a tie; for rows of
\* relevance 0.90, 0.85 (next to the first) and 0.50 (far from both),
\* lambda = 0.7 and limit 2 it returns the first and the third.
C24_MmrSelectsByScore ==
    m_returned =>
        /\ Len(m_selected) = Min(Max(m_limit, 0), Len(m_doc_vecs))
        /\ \A p, r \in 1..Len(m_selected) : p # r => MmrRows[p] # MmrRows[r]
        /\ \A p \in 1..Len(m_selected) :
               /\ MmrRows[p] \in 1..Len(m_doc_vecs)
               /\ \A j \in RemainingAt(p) :
                      IF p = 1
                      THEN RanksBefore(MmrRows[p], j)
                      ELSE LET mine  == ScoreAt(MmrRows[p], PickedBefore(p))
                               other == ScoreAt(j, PickedBefore(p))
                           IN  mine > other \/ (mine = other /\ MmrRows[p] <= j)
        /\ (m_query_vec = <<100, 0>> /\ m_limit = 2) => MmrRows = <<1, 3>>

\* The call on the three rows of relevance 0.90, 0.85 and 0.50 has
\* returned two of them.
C24_Witness ==
    /\ m_returned
    /\ m_query_vec = <<100, 0>>
    /\ m_limit = 2
    /\ MmrSims(2) > MmrSims(3)
    /\ MmrRows = <<1, 3>>

(* ----------------------- more claims about ask_notes -------------------- *)

\* The elements of a sequence.
Range(seq) == {seq[i] : i \in 1..Len(seq)}

\* The final selection of the request had every lexical score been zero.
RerankWithoutLex == Rerank(thresholded, {}, embed_content(q), k, embed_raises)

\* C25: the chunks in the final selection and the chunks cited are those
\* of a run on the same hits and the same query vector with other lexical
\* scores (here: all zero); only their order can differ.
C25_LexicalOnlyReorders ==
    (pc = "done" /\ status = 200) =>
        /\ Range(snippets) = Range(RerankWithoutLex)
        /\ Range(citations) =
               Range(Citations(answer_mode, gen_citations, RerankWithoutLex, k))

\* The survivors the MMR stage is given: snippets[:mmr_input_limit].
MmrInput == Take(thresholded, Min(MmrInputLimit, Len(thresholded)))

\* C26: the candidates of the MMR stage are the min(15, n) survivors with
\* the smallest distances, in ascending order of distance, and no other
\* survivor is in the final selection.
C26_MmrInputIsClosest ==
    (pc \in {"reranked", "done"}) =>
        /\ \A i, j \in 1..Len(MmrInput) :
               i < j => MmrInput[i].distance <= MmrInput[j].distance
        /\ \A i \in 1..Len(MmrInput), j \in (Len(MmrInput) + 1)..Len(thresholded) :
               MmrInput[i].distance <= thresholded[j].distance
        /\ Range(snippets) \subseteq Range(MmrInput)

\* C27: when no hit survives the filter the request is answered with the
\* mode model_only and without citations.
C27_NoSurvivorIsModelOnly ==
    (pc = "done" /\ status = 200 /\ thresholded = <<>>) =>
        (answer_mode = "model_only" /\ citations = <<>>)

\* C28: the matrix given to _mmr_select has one row per snippet of the MMR
\* stage, row i being the embedding of the text of snippet i.
C28_RowsAlignWithSnippets ==
    (pc \in {"reranked", "done"} /\ ~embed_raises) =>
        LET texts == [i \in 1..Len(MmrInput) |-> MmrInput[i].text]
            vecs  == DocVecs(texts, embed_raises)
        IN  /\ Len(vecs) = Len(texts)
            /\ \A i \in 1..Len(texts) : vecs[i] = embed_content(texts[i])

(* ----------------------- more claims about split_text ------------------ *)

\* C29: split_text returns for every text, max_chars >= 1 and overlap >= 0,
\* and the window start grows on every iteration that does not return.
C29_SplitTextTerminates ==
    /\ <>st_returned
    /\ [][~st_returned' => st_start' > st_start]_vars


\* C30: when a hit survives the first pass, one survives the secondary
\* cutoff too: every hit at the least distance over all hits is among the
\* snippets left after both passes.
C30_ClosestHitSurvives ==
    (Filtered /\ candidate_snippets # <<>>) =>
        /\ thresholded # <<>>
        /\ \A i \in 1..Len(hits) :
              HitDistance(hits[i]) = LeastHitDistance
                  => hits[i].id \in IdSet(thresholded)

\* The secondary cutoff ran and removed survivors of the first pass, and
\* the closest hit is still there.
C30_Witness ==
    /\ SecondaryApplied
    /\ Len(thresholded) < Len(candidate_snippets)
    /\ \E i \in 1..Len(thresholded) : thresholded[i].distance = LeastHitDistance
=============================================================================
